---------------------------- MODULE Spec2Model ----------------------------
(***************************************************************************)
(* unijoy: a virtual joystick composed of N real input devices.            *)
(*                                                                         *)
(* The model follows src/unijoy.c: the source registry (a linked list of   *)
(* kzalloc'ed unijoy_inph_source records), the output mapping tables       *)
(* (output.button_map / output.axis_map with their counts), the sysfs      *)
(* command parser, the input-handler callbacks (connect, disconnect,       *)
(* event) and the per-client ring buffer read by unijoy_fops_read.         *)
(***************************************************************************)
EXTENDS Integers, Sequences, FiniteSets, TLC

(***************************************************************************)
(* Bounds of the model.                                                    *)
(***************************************************************************)
\* capacity of output.button_map (UNIJOY_MAX_BUTTONS, 512 in the source)
MaxButtons == 2
\* capacity of output.axis_map (ABS_CNT, 64 in the source)
AbsCnt == 1
\* number of heap cells kzalloc can hand out for sources
MaxAddr == 2
\* number of physical devices
NumDevs == 2
\* log2 of the client ring size (UNIJOY_BUFFER_SIZE is 64 = 2^6 in the source)
BufferBits == 1
\* number of clients that can hold the character device open
MaxClients == 1

(***************************************************************************)
(* Values of the program.                                                  *)
(***************************************************************************)
NULL == 0

Addr == 1..MaxAddr
Devs == 1..NumDevs
Clients == 1..MaxClients

\* enum unijoy_inph_source_state
UNIJOY_SOURCE_ONLINE == "ONLINE"
UNIJOY_SOURCE_MERGED == "MERGED"
UNIJOY_SOURCE_WASMERGED == "WASMERGED"
SourceStates == {UNIJOY_SOURCE_ONLINE, UNIJOY_SOURCE_MERGED, UNIJOY_SOURCE_WASMERGED}

\* UNIJOY_BUFFER_SIZE, a power of two: the ring indices are masked with SIZE-1
UNIJOY_BUFFER_SIZE == 2 ^ BufferBits

JS_CORR_NONE == "NONE"
JS_CORR_BROKEN == "BROKEN"

JS_EVENT_BUTTON == "BUTTON"
JS_EVENT_AXIS == "AXIS"

(***************************************************************************)
(* Machine arithmetic.                                                     *)
(***************************************************************************)
\* TLC computes with 32-bit integers and stops on overflow, so the C arithmetic
\* that may wrap is carried out on the four bytes of an int.

\* byte i (0 the lowest) of the two's complement form of the int a
Byte(a, i) == (a \div (256 ^ i)) % 256

\* the int whose two's complement bytes are r0 (lowest) .. r3
FromBytes(r0, r1, r2, r3) ==
  (IF r3 >= 128 THEN r3 - 256 ELSE r3) * 16777216 + r2 * 65536 + r1 * 256 + r0

\* a + b + cin in 32-bit wrapping arithmetic, b given by its bytes
AddBytes(a, b0, b1, b2, b3, cin) ==
  LET s0 == Byte(a, 0) + b0 + cin
      s1 == Byte(a, 1) + b1 + s0 \div 256
      s2 == Byte(a, 2) + b2 + s1 \div 256
      s3 == Byte(a, 3) + b3 + s2 \div 256
  IN  FromBytes(s0 % 256, s1 % 256, s2 % 256, s3 % 256)

\* int a + int b, wrapping
Add32(a, b) == AddBytes(a, Byte(b, 0), Byte(b, 1), Byte(b, 2), Byte(b, 3), 0)

\* int a - int b, wrapping (a + ~b + 1)
Sub32(a, b) ==
  AddBytes(a, 255 - Byte(b, 0), 255 - Byte(b, 1), 255 - Byte(b, 2), 255 - Byte(b, 3), 1)

\* int a * int b, wrapping: the low four bytes of the schoolbook product
Mul32(a, b) ==
  LET A(i) == Byte(a, i)
      B(i) == Byte(b, i)
      p0 == A(0) * B(0)
      p1 == A(0) * B(1) + A(1) * B(0) + p0 \div 256
      p2 == A(0) * B(2) + A(1) * B(1) + A(2) * B(0) + p1 \div 256
      p3 == A(0) * B(3) + A(1) * B(2) + A(2) * B(1) + A(3) * B(0) + p2 \div 256
  IN  FromBytes(p0 % 256, p1 % 256, p2 % 256, p3 % 256)

\* a value stored into an __s16
Wrap16(x) == ((x + 32768) % 65536) - 32768

\* C integer division truncates toward zero
CDiv(a, b) ==
  LET q == (IF a < 0 THEN -a ELSE a) \div (IF b < 0 THEN -b ELSE b)
  IN  IF (a < 0) = (b < 0) THEN q ELSE -q

\* x >> n on a signed int: an arithmetic shift
Shr(x, n) == x \div (2 ^ n)

\* a long, held as its four 16-bit limbs, the highest first
LongOf(n) ==
  IF n >= 0 THEN <<0, 0, n \div 65536, n % 65536>>
  ELSE <<65535, 65535, (n \div 65536) + 65536, n % 65536>>

\* static inline long unijoy_make_id(struct input_id id): the four __u16 fields
\* shifted to bits 48, 32, 16 and 0 do not overlap, so each is one limb
unijoy_make_id(id) ==
  <<id.bustype % 65536, id.vendor % 65536, id.product % 65536, id.version % 65536>>

(***************************************************************************)
(* Axis correction.                                                        *)
(***************************************************************************)
\* unijoy_inph_correct with the upper slope measured from coef[0], the lower end
\* of the dead zone, instead of coef[1]
unijoy_inph_correct_UpperFromLow(value, corr) ==
  LET c == corr.coef
      v == IF corr.type = JS_CORR_BROKEN
           THEN IF value > c[1]
                THEN IF value < c[2] THEN 0
                     ELSE Shr(Mul32(c[4], Sub32(value, c[1])), 14)
                ELSE Shr(Mul32(c[3], Sub32(value, c[1])), 14)
           ELSE value
  IN  IF corr.type \notin {JS_CORR_NONE, JS_CORR_BROKEN} THEN 0
      ELSE IF v < -32767 THEN -32767 ELSE IF v > 32767 THEN 32767 ELSE v

\* unijoy_inph_correct without the case JS_CORR_NONE, which then falls to the
\* default case
unijoy_inph_correct_NoneMissing(value, corr) ==
  LET c == corr.coef
      v == IF value > c[1]
           THEN IF value < c[2] THEN 0
                ELSE Shr(Mul32(c[4], Sub32(value, c[2])), 14)
           ELSE Shr(Mul32(c[3], Sub32(value, c[1])), 14)
  IN  IF corr.type # JS_CORR_BROKEN THEN 0
      ELSE IF v < -32767 THEN -32767 ELSE IF v > 32767 THEN 32767 ELSE v

\* static int unijoy_inph_correct(int value, struct js_corr *corr)
unijoy_inph_correct(value, corr) ==
  LET c == corr.coef
      v == IF corr.type = JS_CORR_BROKEN
           THEN IF value > c[1]
                THEN IF value < c[2] THEN 0
                     ELSE Shr(Mul32(c[4], Sub32(value, c[2])), 14)
                ELSE Shr(Mul32(c[3], Sub32(value, c[1])), 14)
           ELSE value
  IN  IF corr.type \notin {JS_CORR_NONE, JS_CORR_BROKEN} THEN 0
      ELSE IF v < -32767 THEN -32767 ELSE IF v > 32767 THEN 32767 ELSE v

\* the js_corr record unijoy_inph_create builds for one axis from its absinfo;
\* kzalloc leaves the record zeroed where the code assigns nothing
MakeCorr(abs) ==
  LET t1 == CDiv(Add32(abs.max, abs.min), 2)
      t2 == Sub32(CDiv(Sub32(abs.max, abs.min), 2), Mul32(2, abs.flat))
  IN  IF abs.max = abs.min
      THEN [type |-> JS_CORR_NONE, coef |-> <<0, 0, 0, 0>>]
      ELSE [type |-> JS_CORR_BROKEN,
            coef |-> <<Sub32(t1, abs.flat), Add32(t1, abs.flat),
                       IF t2 # 0 THEN CDiv(2 ^ 29, t2) ELSE 0,
                       IF t2 # 0 THEN CDiv(2 ^ 29, t2) ELSE 0>>]

\* the initial cached value source->axis[i] set by unijoy_inph_create (__s16)
MakeAxisInit(abs) ==
  LET t2 == Sub32(CDiv(Sub32(abs.max, abs.min), 2), Mul32(2, abs.flat))
  IN  IF abs.max = abs.min THEN Wrap16(abs.val)
      ELSE IF t2 # 0 THEN Wrap16(unijoy_inph_correct(abs.val, MakeCorr(abs)))
      ELSE 0

(***************************************************************************)
(* Text of a sysfs command: a sequence of one-character strings.           *)
(***************************************************************************)
Digits == <<"0", "1", "2", "3", "4", "5", "6", "7", "8", "9">>

IsDigit(ch) == \E i \in 1..10 : Digits[i] = ch
DigitVal(ch) == (CHOOSE i \in 1..10 : Digits[i] = ch) - 1
IsSpace(ch) == ch \in {" ", "\n", "\t"}

\* the C string from position i on (1-based); empty past the end (the NUL)
From(s, i) == IF i > Len(s) THEN <<>> ELSE SubSeq(s, i, Len(s))

\* strncmp(opword, ptr, opwordlen) == 0
StartsWith(s, w) == Len(s) >= Len(w) /\ SubSeq(s, 1, Len(w)) = w

RECURSIVE SkipChars(_, _)
\* number of leading characters of s that lie in the set cs
SkipChars(s, cs) ==
  IF s # <<>> /\ Head(s) \in cs THEN 1 + SkipChars(Tail(s), cs) ELSE 0

RECURSIVE DigitsValue(_, _)
\* value of the leading run of decimal digits of s, after the prefix value acc
DigitsValue(s, acc) ==
  IF s # <<>> /\ IsDigit(Head(s))
  THEN DigitsValue(Tail(s), acc * 10 + DigitVal(Head(s)))
  ELSE acc

\* the digits of one %d / %ld conversion: b is the text after the sign, neg
\* tells a minus sign was read; ok is FALSE when no digit follows (matching
\* failure)
ScanDigits(b, neg) ==
  [ok |-> b # <<>> /\ IsDigit(Head(b)),
   val |-> IF neg THEN -DigitsValue(b, 0) ELSE DigitsValue(b, 0),
   rest |-> From(b, SkipChars(b, {Digits[i] : i \in 1..10}) + 1)]

\* the optional sign of one conversion, a being the text after the white space
ScanSigned(a) ==
  IF a # <<>> /\ Head(a) \in {"-", "+"}
  THEN ScanDigits(Tail(a), Head(a) = "-")
  ELSE ScanDigits(a, FALSE)

\* one %d / %ld conversion of sscanf: skips white space, takes an optional sign
\* and a run of digits
ScanInt(s) == ScanSigned(From(s, SkipChars(s, {" ", "\n", "\t"}) + 1))

\* the third conversion of the format, the first two having matched
ScanThird(r1, r2, r3, a2) ==
  [id |-> LongOf(r1.val), arg1 |-> r2.val, arg2 |-> IF r3.ok THEN r3.val ELSE a2]

\* the second conversion of the format, the first having matched
ScanSecond(r1, r2, a1, a2) ==
  IF r2.ok THEN ScanThird(r1, r2, ScanInt(r2.rest), a2)
  ELSE [id |-> LongOf(r1.val), arg1 |-> a1, arg2 |-> a2]

\* the first conversion of the format
ScanFirst(r1, id0, a1, a2) ==
  IF r1.ok THEN ScanSecond(r1, ScanInt(r1.rest), a1, a2)
  ELSE [id |-> id0, arg1 |-> a1, arg2 |-> a2]

\* sscanf(ptr, "%ld %d %d", &id, &arg1, &arg2) with the three targets preset:
\* conversion stops at the first matching failure, later targets keep their value
Scan3(s, id0, a1, a2) == ScanFirst(ScanInt(s), id0, a1, a2)

\* sscanf(ptr, "%d", &arg1) with the target preset
Scan1(r, a1) == IF r.ok THEN r.val ELSE a1

\* the six command words, in the order unijoy_sysfs_store tests them
OpWords == << <<"m", "e", "r", "g", "e">>,
              <<"u", "n", "m", "e", "r", "g", "e">>,
              <<"a", "d", "d", "_", "b", "u", "t", "t", "o", "n">>,
              <<"d", "e", "l", "_", "b", "u", "t", "t", "o", "n">>,
              <<"a", "d", "d", "_", "a", "x", "i", "s">>,
              <<"d", "e", "l", "_", "a", "x", "i", "s">> >>

\* the opwordtest macro over the six words: the first word the text starts with
\* (the text being longer than the word), 0 when there is none
ParseOp(s) ==
  LET hits == {k \in 1..6 : Len(s) > Len(OpWords[k]) /\ StartsWith(s, OpWords[k])}
  IN  IF hits = {} THEN 0 ELSE CHOOSE k \in hits : \A j \in hits : k <= j

\* the sscanf call of the recognised operation op on the text args after its word
ParseArgs(op, args) ==
  IF op \in {1, 2}
  THEN [op |-> op, id |-> Scan3(args, LongOf(0), -1, -1).id, arg1 |-> -1, arg2 |-> -1]
  ELSE IF op \in {3, 5}
       THEN [op |-> op] @@ Scan3(args, LongOf(0), -1, -1)
       ELSE [op |-> op, id |-> LongOf(0), arg1 |-> Scan1(ScanInt(args), -1), arg2 |-> -1]

\* the opwordtest chain on the text ptr: op is the word found, 0 for none
ParseWord(op, ptr) ==
  IF op = 0 THEN [op |-> 0, id |-> LongOf(0), arg1 |-> -1, arg2 |-> -1]
  ELSE ParseArgs(op, From(ptr, Len(OpWords[op]) + 1))

\* unijoy_sysfs_store up to the switch: the operation and its arguments
\* (id defaults to 0, arg1 and arg2 to -1); leading blanks are skipped first
ParseFrom(ptr) == ParseWord(ParseOp(ptr), ptr)

ParseCommand(in_buf) == ParseFrom(From(in_buf, SkipChars(in_buf, {" "}) + 1))

\* decimal text of a small integer
Dec(n) == IF n < 0 THEN <<"-", Digits[(-n) + 1]>> ELSE <<Digits[n + 1]>>

RECURSIVE ArgText(_)
\* the arguments of a command, each preceded by one blank
ArgText(args) ==
  IF args = <<>> THEN <<>> ELSE <<" ">> \o Dec(Head(args)) \o ArgText(Tail(args))

(***************************************************************************)
(* Physical devices as the input core presents them.                       *)
(***************************************************************************)
\* BTN_JOYSTICK - BTN_MISC, the first button code unijoy_inph_create numbers
BtnJoystickRel == 1

\* struct input_id of the devices the model plugs in: two distinct descriptors,
\* one of them all zero
DevIds == {[bustype |-> 0, vendor |-> 0, product |-> 0, version |-> v] : v \in {0, 5}}

\* dev->keybit (codes relative to BTN_MISC) and dev->absbit of every device
DevKeybit == {BtnJoystickRel}
DevAbsbit == {0}

\* input_abs_get_min/max/flat/fuzz of every axis of every device
DevAbsinfo == [min |-> -2, max |-> 2, flat |-> 0, fuzz |-> 0, val |-> 0]

\* raw samples a device reports on an axis
RawValues == {0, 1}

\* source->corrections[i] of every axis of every source
DevCorr == MakeCorr(DevAbsinfo)

\* unijoy_inph_correct on each raw sample, as stored into the __s16 value field
\* of a js_event
Corrected == [value \in RawValues |-> Wrap16(unijoy_inph_correct(value, DevCorr))]

\* number of members of the set S below x
Rank(S, x) == Cardinality({y \in S : y < x})

\* unijoy_inph_create, first loop: source->axis_map over the set bits of absbit
AxisMapOf(absbit) == [c \in absbit |-> Rank(absbit, c)]

\* unijoy_inph_create, second and third loop: source->button_map; the codes from
\* BTN_JOYSTICK up are numbered first, the codes below it after them
ButtonMapOf(keybit) ==
  LET hi == {c \in keybit : c >= BtnJoystickRel}
      lo == {c \in keybit : c < BtnJoystickRel}
  IN  [c \in keybit |-> IF c \in hi THEN Rank(hi, c) ELSE Cardinality(hi) + Rank(lo, c)]

\* source->button_revmap: local index to code
ButtonRevmapOf(keybit) ==
  [i \in 0..(Cardinality(keybit) - 1) |->
     CHOOSE c \in keybit : ButtonMapOf(keybit)[c] = i]

(***************************************************************************)
(* State.                                                                  *)
(***************************************************************************)
VARIABLES
  heap,      \* the kzalloc'ed unijoy_inph_source records, by address
  sources,   \* unijoy_sysfs.sources: the registry list, first entry first
  devs,      \* the physical devices: descriptor, key and axis state, handle
  output,    \* the static struct output: counts and mapping tables
  clients,   \* the unijoy_fops_client records of the open files
  conn,      \* connect callbacks in progress: position and local variables
  fault,     \* the undefined behaviour the program has run into, if any
  emitted,   \* the events the last unijoy_inph_event passed to distribute
  rd,        \* outcome of the last unijoy_fops_read
  relinked,  \* whether the last step was a connect that merged its source again
  calc,      \* one axis correction followed from the absinfo to the result
  dq,        \* the deferred-action queue and its worker
  wr,        \* an add_axis or del_axis command followed store by store
  ev,        \* an EV_ABS event followed load by load, and the events routed
  sent,      \* the last axis event unijoy_inph_event passed on: source, axis, value
  lk         \* a control command followed from its lookup to the use of the source

vars == <<heap, sources, devs, output, clients, conn, fault, emitted, rd,
          relinked, calc, dq, wr, ev, sent, lk>>

\* a freed (or never allocated) heap cell
FreeCell == [live |-> FALSE, id |-> LongOf(0), state |-> UNIJOY_SOURCE_ONLINE,
             dev |-> NULL, open |-> FALSE, axis_no |-> 0, buttons_no |-> 0,
             axis |-> <<>>]

\* struct unijoy_inph_source_map of zeroed static storage
EmptySlot == [source |-> NULL, mapping |-> 0]

\* struct js_event of zeroed storage; the time field of the events (jiffies) is
\* left out of the model
ZeroEvent == [type |-> "ZERO", init |-> FALSE, number |-> 0, value |-> 0]

\* a unijoy_fops_client as kzalloc returns it; open tells an attached client
NewClient == [open |-> FALSE, head |-> 0, tail |-> 0, startup |-> 0,
              buffer |-> [i \in 0..(UNIJOY_BUFFER_SIZE - 1) |-> ZeroEvent]]

\* a device that is not plugged in
NoDev == [plugged |-> FALSE, id |-> [bustype |-> 0, vendor |-> 0, product |-> 0, version |-> 0],
          handle |-> NULL, key |-> [c \in DevKeybit |-> 0], abs |-> [c \in DevAbsbit |-> 0]]

\* a connect callback that is not running
IdleConn == [at |-> "idle", source |-> NULL,
             desc |-> [bustype |-> 0, vendor |-> 0, product |-> 0, version |-> 0]]

\* rd when the last step was no read: client is the reading client, err the
\* error returned ("none" for a byte count), ret the bytes returned, events the
\* js_event records copied out, in order
NoRead == [client |-> 0, err |-> "none", ret |-> 0, events |-> <<>>]

\* calc when no single correction is followed: at is the position ("idle",
\* "input", "created", "corrected"), abs the input_absinfo of the axis, value
\* the raw sample, corr the js_corr record built, out the value returned
IdleCalc == [at |-> "idle", abs |-> [min |-> 0, max |-> 0, flat |-> 0, fuzz |-> 0, val |-> 0],
             value |-> 0, corr |-> [type |-> JS_CORR_NONE, coef |-> <<0, 0, 0, 0>>],
             out |-> 0]

\* unijoy_init, unijoy_sysfs_setup: empty registry, zeroed tables, no client
InitModule ==
  /\ heap = [a \in Addr |-> FreeCell]
  /\ sources = <<>>
  /\ devs = [d \in Devs |-> NoDev]
  /\ output = [buttons_no |-> 0, axis_no |-> 0,
               button_map |-> [i \in 0..(MaxButtons - 1) |-> EmptySlot],
               axis_map |-> [i \in 0..(AbsCnt - 1) |-> EmptySlot]]
  /\ clients = [c \in Clients |-> NewClient]
  /\ conn = [d \in Devs |-> IdleConn]
  /\ fault = "none"
  /\ emitted = <<>>
  /\ rd = NoRead
  /\ relinked = FALSE

\* Deferred actions: the kinds, and the queue as it is initialised on start.
\* An entry is kept with the number n of the push that brought it. pushed counts
\* the pushes, retained lists the entries accepted, dropped the numbers of the
\* pushes refused, consumed the entries the worker took, each in order.
QueueCap == 2
MaxPushes == 4

DeferredActions ==
  {[kind |-> "EmitButton", channel |-> 0, value |-> v] : v \in {0, 1}}
  \cup {[kind |-> "EmitAxis", channel |-> 0, value |-> v] : v \in {0, 1}}
  \cup {[kind |-> "Refresh", channel |-> 0, value |-> 0]}

NoAction == [kind |-> "None", channel |-> 0, value |-> 0, n |-> 0]

EmptyQueue == [buf |-> [i \in 0..(QueueCap - 1) |-> NoAction], head |-> 0, tail |-> 0,
               full |-> FALSE, worker |-> "blocked", stop |-> FALSE,
               pushed |-> 0, retained |-> <<>>, dropped |-> <<>>, consumed |-> <<>>]

\* wr when no command is followed: at is "idle" or "writing", todo the stores
\* of the command not yet made, before and after the table and count as the
\* command found them and as it leaves them
IdleWr == [at |-> "idle", todo |-> <<>>,
            before |-> [map |-> <<>>, count |-> 0], after |-> [map |-> <<>>, count |-> 0]]

\* ev when no event is followed: at is the position in the routing loop
\* ("idle", "count", "source", "mapping"), i the loop index, count the last
\* output.axis_no loaded, number and value the fields of passing_event, n the
\* number of samples that passed the cache so far, log the calls of
\* unijoy_inph_distribute so far, each with its destination and its sample
IdleEv == [at |-> "idle", i |-> 0, count |-> 0, number |-> 0, value |-> 0, n |-> 0,
           log |-> <<>>]

\* no command is between its lookup and the use of the source; else at is
\* "found", op the verb, source what unijoy_sysfs_find returned
IdleLk == [at |-> "idle", op |-> 0, source |-> NULL, arg1 |-> 0, arg2 |-> 0]

\* no axis event has been passed on yet
NoneSent == [source |-> NULL, number |-> 0, value |-> 0]

Init ==
  /\ InitModule /\ calc = IdleCalc /\ dq = EmptyQueue /\ wr = IdleWr /\ ev = IdleEv
  /\ sent = NoneSent
  /\ lk = IdleLk

(***************************************************************************)
(* Source registry.                                                        *)
(***************************************************************************)
\* static struct unijoy_inph_source *unijoy_sysfs_find(long id)
unijoy_sysfs_find(h, srcs, id) ==
  LET hits == {k \in 1..Len(srcs) : h[srcs[k]].id = id}
  IN  IF hits = {} THEN NULL
      ELSE srcs[CHOOSE k \in hits : \A j \in hits : k <= j]

\* the record unijoy_inph_create fills in for a device, before it is listed
NewSource(desc) ==
  [live |-> TRUE, id |-> unijoy_make_id(desc), state |-> UNIJOY_SOURCE_ONLINE,
   dev |-> NULL, open |-> FALSE,
   axis_no |-> Cardinality(DevAbsbit), buttons_no |-> Cardinality(DevKeybit),
   axis |-> [i \in 0..(Cardinality(DevAbsbit) - 1) |-> MakeAxisInit(DevAbsinfo)]]

\* list_add(&source->list, &unijoy_sysfs.sources.list): insertion at the head
ListAdd(srcs, a) == <<a>> \o srcs

\* list_del(&source->list)
ListDel(srcs, a) == SelectSeq(srcs, LAMBDA x : x # a)

\* unijoy_sysfs_merge with the state test narrowed to ONLINE
unijoy_sysfs_merge_OnlineOnly(h, source, registered) ==
  IF source = NULL THEN h
  ELSE IF h[source].state # UNIJOY_SOURCE_ONLINE THEN h
  ELSE [h EXCEPT ![source].state = UNIJOY_SOURCE_MERGED,
                 ![source].open = registered]

\* static void unijoy_sysfs_merge(struct unijoy_inph_source *source); the device
\* opens only while its handle is registered (input_open_device fails otherwise)
unijoy_sysfs_merge(h, source, registered) ==
  IF source = NULL THEN h
  ELSE IF h[source].state \notin {UNIJOY_SOURCE_ONLINE, UNIJOY_SOURCE_WASMERGED} THEN h
  ELSE [h EXCEPT ![source].state = UNIJOY_SOURCE_MERGED,
                 ![source].open = registered]

\* static void unijoy_sysfs_remove(struct unijoy_inph_source *source): the heap
\* and the list after list_del and kfree
unijoy_sysfs_remove(h, srcs, source) ==
  IF source = NULL THEN [heap |-> h, sources |-> srcs]
  ELSE [heap |-> [h EXCEPT ![source] = FreeCell], sources |-> ListDel(srcs, source)]

\* static void unijoy_sysfs_unmerge(struct unijoy_inph_source *source)
unijoy_sysfs_unmerge(h, srcs, source) ==
  IF source = NULL THEN [heap |-> h, sources |-> srcs]
  ELSE IF h[source].state = UNIJOY_SOURCE_WASMERGED
       THEN unijoy_sysfs_remove(h, srcs, source)
  ELSE IF h[source].state # UNIJOY_SOURCE_MERGED THEN [heap |-> h, sources |-> srcs]
  ELSE [heap |-> [h EXCEPT ![source].state = UNIJOY_SOURCE_ONLINE,
                           ![source].open = FALSE],
        sources |-> srcs]

\* static void unijoy_sysfs_suspend(struct unijoy_inph_source *source)
unijoy_sysfs_suspend(h, source) ==
  IF source = NULL THEN h
  ELSE [h EXCEPT ![source].state = UNIJOY_SOURCE_WASMERGED, ![source].open = FALSE]

(***************************************************************************)
(* Output mapping tables.  The button and axis functions of the source are *)
(* the same text over different tables; the model shares their body.       *)
(***************************************************************************)
\* the destination unijoy_sysfs_add_button settles on before its capacity test:
\* the given one, else the first slot below the count without a source, else the
\* count while it is below the capacity, else the -1 it was given
ResolveDst(map, count, cap, dst_no) ==
  LET holes == {i \in 0..(count - 1) : map[i].source = NULL}
  IN  IF dst_no >= 0 THEN dst_no
      ELSE IF holes # {} THEN CHOOSE i \in holes : \A j \in holes : i <= j
      ELSE IF count < cap THEN count
      ELSE dst_no

\* the body of unijoy_sysfs_add_button / unijoy_sysfs_add_axis: the new table
\* and count, and the index written (wrote is empty when the function returned
\* early; an index outside 0..cap-1 leaves the table as it is)
AddSlot(map, count, cap, h, source, local_no, src_no, dst_no) ==
  LET same == [map |-> map, count |-> count, wrote |-> {}]
      d == ResolveDst(map, count, cap, dst_no)
  IN  IF source = NULL THEN same
      ELSE IF h[source].state # UNIJOY_SOURCE_MERGED THEN same
      ELSE IF src_no < 0 \/ src_no > local_no THEN same
      ELSE IF d >= count /\ d >= cap THEN same
      ELSE [map |-> IF d \in 0..(cap - 1)
                    THEN [map EXCEPT ![d] = [source |-> source, mapping |-> src_no]]
                    ELSE map,
            count |-> IF d >= count THEN d + 1 ELSE count,
            wrote |-> {d}]

\* the body of unijoy_sysfs_del_button / unijoy_sysfs_del_axis: the new table
\* and count; runaway tells that the compaction loop found no source at any
\* index down to 0 and went on reading below the table
DelSlot(map, count, dst_no) ==
  LET same == [map |-> map, count |-> count, runaway |-> FALSE]
      cleared == [map EXCEPT ![dst_no].source = NULL]
      live == {i \in 0..dst_no : cleared[i].source # NULL}
  IN  IF dst_no < 0 \/ dst_no >= count THEN same
      ELSE IF map[dst_no].source = NULL THEN same
      ELSE IF dst_no + 1 # count THEN [map |-> cleared, count |-> count, runaway |-> FALSE]
      ELSE IF live = {} THEN [map |-> cleared, count |-> count, runaway |-> TRUE]
      ELSE [map |-> cleared, runaway |-> FALSE,
            count |-> (CHOOSE i \in live : \A j \in live : j <= i) + 1]

\* Below index 0 of a table lies what struct output declares before it:
\* button_map follows axis_map, so button_map[-k] is axis_map[ABS_CNT - k];
\* axis_map follows button_revmap, whose entries (BTN_MISC + i) are all
\* nonzero, so a word read below axis_map is taken for a source.

\* output.buttons_no after the compaction loop of unijoy_sysfs_del_button ran
\* below index 0: it stops at the highest axis slot that holds a source, else
\* in button_revmap
RunawayButtonsNo(axis_map) ==
  LET held == {i \in DOMAIN axis_map : axis_map[i].source # NULL}
  IN  IF held = {} THEN -AbsCnt
      ELSE (CHOOSE i \in held : \A j \in held : j <= i) - AbsCnt + 1

\* output.axis_no after the compaction loop of unijoy_sysfs_del_axis ran below
\* index 0: it stops at axis_map[-1]
RunawayAxisNo == 0

\* static void unijoy_sysfs_add_button(struct unijoy_inph_source *, int, int)
unijoy_sysfs_add_button(out, h, source, src_no, dst_no) ==
  AddSlot(out.button_map, out.buttons_no, MaxButtons, h, source,
          IF source = NULL THEN 0 ELSE h[source].buttons_no, src_no, dst_no)

\* static void unijoy_sysfs_add_axis(struct unijoy_inph_source *, int, int)
unijoy_sysfs_add_axis(out, h, source, src_no, dst_no) ==
  AddSlot(out.axis_map, out.axis_no, AbsCnt, h, source,
          IF source = NULL THEN 0 ELSE h[source].axis_no, src_no, dst_no)

\* static void unijoy_sysfs_del_button(int dst_no)
unijoy_sysfs_del_button(out, dst_no) == DelSlot(out.button_map, out.buttons_no, dst_no)

\* static void unijoy_sysfs_del_axis(int dst_no)
unijoy_sysfs_del_axis(out, dst_no) == DelSlot(out.axis_map, out.axis_no, dst_no)

(***************************************************************************)
(* The command texts written to the sysfs attribute.                       *)
(***************************************************************************)
\* the ids a command names: the versions of the two descriptors, which are
\* the decimal values of their ids
CmdIds == {desc.version : desc \in DevIds}

\* a command word, text glued to it, and the arguments
Cmd(op, glue, args) == OpWords[op] \o glue \o ArgText(args)

\* texts glued to the command word: none, or a letter
Glue == {<<>>, <<"X">>}

\* the commands over the given source-local indices and glued texts; the
\* destinations run up to the capacity of the table
CmdSet(srcNos, glues) ==
  LET idArgs == {<<>>} \cup {<<id>> : id \in CmdIds}
      addArgs(cap) == {<<id, n>> : id \in CmdIds, n \in srcNos}
                      \cup {<<id, n, d>> : id \in CmdIds, n \in srcNos, d \in 0..cap}
      delArgs(cap) == {<<>>} \cup {<<d>> : d \in 0..cap}
  IN  {Cmd(op, g, a) : op \in {1, 2}, g \in glues, a \in idArgs}
      \cup {Cmd(3, g, a) : g \in glues, a \in addArgs(MaxButtons)}
      \cup {Cmd(5, g, a) : g \in glues, a \in addArgs(AbsCnt)}
      \cup {Cmd(4, g, a) : g \in glues, a \in delArgs(MaxButtons)}
      \cup {Cmd(6, g, a) : g \in glues, a \in delArgs(AbsCnt)}

\* the texts of the control plane: source-local index 0 (the one button or axis
\* of a device) and 2 (beyond it), each command word also with a letter glued
\* to it, a command after a blank, and texts that start with no command word
Commands ==
  CmdSet({0, 2}, Glue)
  \cup {<<" ">> \o Cmd(1, <<>>, <<id>>) : id \in CmdIds}
  \cup {<<"q", "u", "i", "t">>, <<"m", "e", "r", "g", "e">>,
        <<"m", "e", "r", "g", "e", "5">>, <<>>}

\* the texts written while the events of two devices are routed: well-formed
\* merge, add and del commands without a destination, with source-local index
\* 0 and, for buttons, also 1, and add_axis commands that name destination 0
RouteCommands ==
  {Cmd(1, <<>>, <<id>>) : id \in CmdIds}
  \cup {Cmd(3, <<>>, <<id, n>>) : id \in CmdIds, n \in {0, 1}}
  \cup {Cmd(5, <<>>, <<id, 0>>) : id \in CmdIds}
  \cup {Cmd(5, <<>>, <<id, 0, 0>>) : id \in CmdIds}
  \cup {Cmd(4, <<>>, <<d>>) : d \in 0..(MaxButtons - 1)}
  \cup {Cmd(6, <<>>, <<d>>) : d \in 0..(AbsCnt - 1)}

\* the descriptor of the one device that is present while a client reads
IODesc == CHOOSE desc \in DevIds : desc.version # 0

\* the texts written while a client reads: well-formed merge, add and del
\* commands for that device, with source-local index 0
IOCommands ==
  {Cmd(1, <<>>, <<IODesc.version>>),
   Cmd(3, <<>>, <<IODesc.version, 0>>),
   Cmd(5, <<>>, <<IODesc.version, 0>>)}
  \cup {Cmd(3, <<>>, <<IODesc.version, 0, d>>) : d \in 0..(MaxButtons - 1)}
  \cup {Cmd(4, <<>>, <<d>>) : d \in 0..(MaxButtons - 1)}
  \cup {Cmd(6, <<>>, <<d>>) : d \in 0..(AbsCnt - 1)}

\* the axis slots of the table while a command races an event
RaceAbsCnt == 2

\* the merge command, and the axis commands followed store by store: add_axis
\* of the one axis of the device, with and without a destination, and del_axis
RaceMerge == Cmd(1, <<>>, <<IODesc.version>>)
RaceCommands ==
  {Cmd(5, <<>>, <<IODesc.version, 0>>)}
  \cup {Cmd(5, <<>>, <<IODesc.version, 0, d>>) : d \in 0..(RaceAbsCnt - 1)}
  \cup {Cmd(6, <<>>, <<d>>) : d \in 0..(RaceAbsCnt - 1)}

\* the outcome of parsing each command text
Parsed ==
  [c \in Commands \cup RouteCommands \cup IOCommands \cup RaceCommands \cup {RaceMerge}
     |-> ParseCommand(c)]

(***************************************************************************)
(* unijoy_sysfs_store: one command, parsed and carried out.                *)
(***************************************************************************)
\* whether the input core holds a registered handle of the source
Registered(source) == \E d \in Devs : devs[d].handle = source

\* emitted, rd and relinked tell of the last step only: a step that is no
\* event, no read and no connect leaves them blank
NoEmit == emitted' = <<>>
NoRd == rd' = NoRead
NoRelink == relinked' = FALSE
\* the parts of the state that only the specifications of a single correction,
\* of the deferred queue and of a command racing an event move
Apart == UNCHANGED <<calc, dq, wr, ev, sent, lk>>

\* no change outside the registry and the tables
OnlyControl == UNCHANGED <<devs, clients, conn>> /\ NoEmit /\ NoRd /\ Apart /\ NoRelink

\* The program is followed up to the first undefined behaviour it runs into (an
\* access outside a table, a use of freed memory, a NULL dereference): the
\* step that commits it shows each effect the build can give it, and nothing
\* is claimed about what runs afterwards.
Running == fault = "none"

\* op == 0: the text is dropped
StoreDiscard(in_buf) ==
  /\ Parsed[in_buf].op = 0
  /\ UNCHANGED <<heap, sources, output, fault>>
  /\ OnlyControl

\* case 1: merge <id>
StoreMerge(in_buf) ==
  LET cmd == Parsed[in_buf]
      source == unijoy_sysfs_find(heap, sources, cmd.id)
  IN  /\ cmd.op = 1
      /\ heap' = unijoy_sysfs_merge(heap, source, Registered(source))
      /\ UNCHANGED <<sources, output, fault>>
      /\ OnlyControl

\* case 2: unmerge <id>
StoreUnmerge(in_buf) ==
  LET cmd == Parsed[in_buf]
      source == unijoy_sysfs_find(heap, sources, cmd.id)
      r == unijoy_sysfs_unmerge(heap, sources, source)
  IN  /\ cmd.op = 2
      /\ heap' = r.heap
      /\ sources' = r.sources
      /\ UNCHANGED <<output, fault>>
      /\ OnlyControl

\* case 3: add_button <id> <src> [dst]; a write at a negative index lands below
\* button_map, where the struct holds the last entries of axis_map
StoreAddButton(in_buf) ==
  LET cmd == Parsed[in_buf]
      source == unijoy_sysfs_find(heap, sources, cmd.id)
      r == unijoy_sysfs_add_button(output, heap, source, cmd.arg1, cmd.arg2)
      out == [output EXCEPT !.button_map = r.map, !.buttons_no = r.count]
      below == {d \in r.wrote : d < 0}
  IN  /\ cmd.op = 3
      /\ fault' = IF below # {} THEN "oob_write" ELSE fault
      /\ output' = IF \E d \in below : AbsCnt + d >= 0
                    THEN [out EXCEPT !.axis_map[AbsCnt + (CHOOSE d \in below : TRUE)] =
                                       [source |-> source, mapping |-> cmd.arg1]]
                    ELSE out
      /\ UNCHANGED <<heap, sources>>
      /\ OnlyControl

\* case 5: add_axis <id> <src> [dst]; a write at a negative index lands below
\* axis_map, outside the tables
StoreAddAxis(in_buf) ==
  LET cmd == Parsed[in_buf]
      source == unijoy_sysfs_find(heap, sources, cmd.id)
      r == unijoy_sysfs_add_axis(output, heap, source, cmd.arg1, cmd.arg2)
  IN  /\ cmd.op = 5
      /\ fault' = IF \E d \in r.wrote : d < 0 THEN "oob_write" ELSE fault
      /\ output' = [output EXCEPT !.axis_map = r.map, !.axis_no = r.count]
      /\ UNCHANGED <<heap, sources>>
      /\ OnlyControl

\* case 4: del_button <dst>
StoreDelButton(in_buf) ==
  LET cmd == Parsed[in_buf]
      r == unijoy_sysfs_del_button(output, cmd.arg1)
  IN  /\ cmd.op = 4
      /\ fault' = IF r.runaway THEN "oob_read" ELSE fault
      /\ output' = [output EXCEPT !.button_map = r.map,
                                   !.buttons_no = IF r.runaway
                                                  THEN RunawayButtonsNo(output.axis_map)
                                                  ELSE r.count]
      /\ UNCHANGED <<heap, sources>>
      /\ OnlyControl

\* case 6: del_axis <dst>
StoreDelAxis(in_buf) ==
  LET cmd == Parsed[in_buf]
      r == unijoy_sysfs_del_axis(output, cmd.arg1)
  IN  /\ cmd.op = 6
      /\ fault' = IF r.runaway THEN "oob_read" ELSE fault
      /\ output' = [output EXCEPT !.axis_map = r.map,
                                   !.axis_no = IF r.runaway THEN RunawayAxisNo
                                               ELSE r.count]
      /\ UNCHANGED <<heap, sources>>
      /\ OnlyControl

\* static ssize_t unijoy_sysfs_store(struct kobject *, struct attribute *,
\*                                   const char *in_buf, size_t in_len)
unijoy_sysfs_store(in_buf) ==
  /\ Running
  /\ \/ StoreDiscard(in_buf)
     \/ StoreMerge(in_buf)
     \/ StoreUnmerge(in_buf)
     \/ StoreAddButton(in_buf)
     \/ StoreDelButton(in_buf)
     \/ StoreAddAxis(in_buf)
     \/ StoreDelAxis(in_buf)

(***************************************************************************)
(* Input handler callbacks: connect and disconnect.                        *)
(***************************************************************************)
\* unijoy_inph_connect from the handle set-up on: the heap after the handle
\* fields are written and, when input_register_handle succeeded, after the
\* re-merge of a WASMERGED source
ConnectHandle(h, source, d, registered) ==
  LET h1 == [h EXCEPT ![source].dev = d]
  IN  IF registered /\ h1[source].state = UNIJOY_SOURCE_WASMERGED
      THEN unijoy_sysfs_merge(h1, source, TRUE)
      ELSE h1

\* static int unijoy_inph_connect(...), run as one step; registered tells
\* whether input_register_handle succeeds.  A failed kzalloc returns -EINVAL
\* and a failed input_register_handle returns its error; in both cases the
\* device stays without a handle.  The devices are alike, so
\* the one that appears takes the first unused place; the devices plugged in
\* at one time have distinct ids.
unijoy_inph_connect(d, desc, registered) ==
  LET id == unijoy_make_id(desc)
      found == unijoy_sysfs_find(heap, sources, id)
  IN  /\ Running
      /\ ~devs[d].plugged
      /\ \A e \in Devs : e < d => devs[e].plugged
      /\ conn[d].at = "idle"
      /\ \A e \in Devs : devs[e].plugged => unijoy_make_id(devs[e].id) # id
      /\ NoEmit /\ NoRd /\ Apart
      /\ \/ /\ found = NULL
            /\ NoRelink
            /\ UNCHANGED <<heap, sources, devs, output, clients, conn, fault>>
         \/ \E source \in Addr :
              /\ IF found # NULL THEN source = found ELSE ~heap[source].live
              /\ LET h0 == IF found # NULL THEN heap
                           ELSE [heap EXCEPT ![source] = NewSource(desc)]
                 IN  heap' = ConnectHandle(h0, source, d, registered)
              /\ sources' = IF found # NULL THEN sources ELSE ListAdd(sources, source)
              /\ devs' = IF registered
                         THEN [devs EXCEPT ![d] = [NoDev EXCEPT !.plugged = TRUE,
                                                               !.id = desc,
                                                               !.handle = source]]
                         ELSE devs
              /\ relinked' = (registered /\ found # NULL
                               /\ heap[source].state = UNIJOY_SOURCE_WASMERGED)
              /\ UNCHANGED <<output, clients, conn, fault>>

\* static void unijoy_inph_disconnect(struct input_handle *handle)
unijoy_inph_disconnect(d) ==
  LET source == devs[d].handle
      r == unijoy_sysfs_remove(heap, sources, source)
  IN  /\ Running
      /\ devs[d].handle # NULL
      /\ conn[d].at = "idle"
      /\ IF ~heap[source].live
         THEN /\ fault' = "use_after_free"
              /\ UNCHANGED <<heap, sources>>
         ELSE IF heap[source].state = UNIJOY_SOURCE_MERGED
         THEN /\ heap' = unijoy_sysfs_suspend(heap, source)
              /\ UNCHANGED <<sources, fault>>
         ELSE /\ heap' = r.heap
              /\ sources' = r.sources
              /\ UNCHANGED fault
      /\ devs' = [devs EXCEPT ![d] = NoDev]
      /\ NoEmit /\ NoRd /\ Apart /\ NoRelink
      /\ UNCHANGED <<output, clients, conn>>

(***************************************************************************)
(* The control plane: devices come and go, commands are written.           *)
(***************************************************************************)
Next ==
  \/ \E d \in Devs, desc \in DevIds, registered \in BOOLEAN :
       unijoy_inph_connect(d, desc, registered)
  \/ \E d \in Devs : unijoy_inph_disconnect(d)
  \/ \E in_buf \in Commands : unijoy_sysfs_store(in_buf)

Spec == Init /\ [][Next]_vars

(***************************************************************************)
(* unijoy_inph_connect step by step, as two callbacks that overlap run it: *)
(* each step is one critical section of sources_lock or the code between   *)
(* two of them.  Nothing in the source keeps two connect callbacks apart.  *)
(***************************************************************************)
\* unijoy_inph_connect, the lookup: id = unijoy_make_id(dev->id);
\* source = unijoy_sysfs_find(id)
ConnectFind(d, desc) ==
  LET found == unijoy_sysfs_find(heap, sources, unijoy_make_id(desc))
  IN  /\ Running
      /\ ~devs[d].plugged
      /\ conn[d].at = "idle"
      /\ \A e \in Devs : e < d => (devs[e].plugged \/ conn[e].at # "idle")
      /\ conn' = [conn EXCEPT ![d] = [at |-> IF found = NULL THEN "create" ELSE "handle",
                                      source |-> found, desc |-> desc]]
      /\ UNCHANGED <<heap, sources, devs, output, clients, fault>>
      /\ NoEmit /\ NoRd /\ Apart /\ NoRelink

\* unijoy_inph_create, its own lookup and the kzalloc: with the id listed it
\* returns 0 and connect returns -EINVAL, as it does when kzalloc fails; else
\* the record is filled in, not yet listed
CreateFind(d) ==
  LET desc == conn[d].desc
      found == unijoy_sysfs_find(heap, sources, unijoy_make_id(desc))
  IN  /\ Running
      /\ conn[d].at = "create"
      /\ \/ /\ conn' = [conn EXCEPT ![d] = IdleConn]
            /\ UNCHANGED heap
         \/ /\ found = NULL
            /\ \E a \in Addr :
                 /\ ~heap[a].live
                 /\ heap' = [heap EXCEPT ![a] = NewSource(desc)]
                 /\ conn' = [conn EXCEPT ![d] = [at |-> "insert", source |-> a,
                                                 desc |-> desc]]
      /\ UNCHANGED <<sources, devs, output, clients, fault>>
      /\ NoEmit /\ NoRd /\ Apart /\ NoRelink

\* unijoy_inph_create, the insertion under sources_lock
CreateInsert(d) ==
  /\ Running
  /\ conn[d].at = "insert"
  /\ sources' = ListAdd(sources, conn[d].source)
  /\ conn' = [conn EXCEPT ![d].at = "handle"]
  /\ UNCHANGED <<heap, devs, output, clients, fault>>
  /\ NoEmit /\ NoRd /\ Apart /\ NoRelink

\* unijoy_inph_connect from the handle set-up to its return; the source may
\* have been released by a disconnect since the lookup
ConnectRegister(d) ==
  LET source == conn[d].source
  IN  /\ Running
      /\ conn[d].at = "handle"
      /\ conn' = [conn EXCEPT ![d] = IdleConn]
      /\ NoEmit /\ NoRd /\ Apart
      /\ UNCHANGED <<sources, output, clients>>
      /\ IF ~heap[source].live
         THEN /\ fault' = "use_after_free"
              /\ NoRelink
              /\ UNCHANGED <<heap, devs>>
         ELSE \E registered \in BOOLEAN :
                /\ heap' = ConnectHandle(heap, source, d, registered)
                /\ devs' = IF registered
                           THEN [devs EXCEPT ![d] = [NoDev EXCEPT !.plugged = TRUE,
                                                                 !.id = conn[d].desc,
                                                                 !.handle = source]]
                           ELSE devs
                /\ relinked' = (registered
                                /\ heap[source].state = UNIJOY_SOURCE_WASMERGED)
                /\ UNCHANGED fault

NextConnect ==
  \/ \E d \in Devs, desc \in DevIds : ConnectFind(d, desc)
  \/ \E d \in Devs : CreateFind(d)
  \/ \E d \in Devs : CreateInsert(d)
  \/ \E d \in Devs : ConnectRegister(d)
  \/ \E d \in Devs : unijoy_inph_disconnect(d)
  \/ \E in_buf \in {Cmd(op, <<>>, <<id>>) : op \in {1, 2}, id \in CmdIds} :
       unijoy_sysfs_store(in_buf)

SpecConnect == Init /\ [][NextConnect]_vars

(***************************************************************************)
(* Properties of the control plane.                                        *)
(***************************************************************************)
\* the slots of a table that hold a source
Occupied(map) == {i \in DOMAIN map : map[i].source # NULL}

\* one plus the highest occupied index of a table, 0 when none is occupied
TopPlusOne(map) ==
  IF Occupied(map) = {} THEN 0
  ELSE (CHOOSE i \in Occupied(map) : \A j \in Occupied(map) : j <= i) + 1

\* the slots of both tables bound to the source at address a
BoundButtons(out, a) == {i \in DOMAIN out.button_map : out.button_map[i].source = a}
BoundAxes(out, a) == {i \in DOMAIN out.axis_map : out.axis_map[i].source = a}

\* C1: after any sequence of add/del commands each count equals one plus the
\* highest occupied slot index (0 when no slot is occupied), so every slot at
\* or above the count is empty.
C1_CountIsTopPlusOne ==
  /\ output.buttons_no = TopPlusOne(output.button_map)
  /\ output.axis_no = TopPlusOne(output.axis_map)

\* C2: disconnecting a merged source leaves it registered as WASMERGED with the
\* mapping tables as they were, and the connect of a device with the same id
\* merges it again, opens the device and leaves the tables as they were: every
\* slot still routes from the same source and the same source-local index.
C2_ReconnectRelinks ==
  [][ /\ \A d \in Devs :
           (/\ devs[d].handle # NULL
            /\ heap[devs[d].handle].state = UNIJOY_SOURCE_MERGED
            /\ unijoy_inph_disconnect(d))
           => /\ heap'[devs[d].handle].state = UNIJOY_SOURCE_WASMERGED
              /\ \E k \in 1..Len(sources') : sources'[k] = devs[d].handle
              /\ output' = output
      /\ \A d \in Devs, desc \in DevIds :
           LET found == unijoy_sysfs_find(heap, sources, unijoy_make_id(desc))
           IN  (/\ found # NULL
                /\ heap[found].state = UNIJOY_SOURCE_WASMERGED
                /\ unijoy_inph_connect(d, desc, TRUE))
               => /\ devs'[d].handle = found
                  /\ heap'[found].state = UNIJOY_SOURCE_MERGED
                  /\ heap'[found].open
                  /\ heap'[found].id = heap[found].id
                  /\ output' = output
    ]_vars

\* C2 witness: a connect has just merged a source again that a button slot is
\* still bound to.
C2_Witness ==
  /\ relinked
  /\ \E a \in Addr :
       /\ heap[a].live /\ heap[a].state = UNIJOY_SOURCE_MERGED
       /\ Registered(a)
       /\ BoundButtons(output, a) # {}

\* the first word of a command text: the characters after the leading blanks
\* up to the next white space
VerbToken(in_buf) ==
  LET ptr == From(in_buf, SkipChars(in_buf, {" "}) + 1)
      n == Cardinality({k \in 1..Len(ptr) : \A j \in 1..k : ~IsSpace(ptr[j])})
  IN  SubSeq(ptr, 1, n)

ExactVerb(in_buf) == \E k \in 1..6 : VerbToken(in_buf) = OpWords[k]

\* C5: a command whose first word is not exactly one of the six verbs changes
\* no source, no registry entry, no slot and no count.
C5_MalformedDiscarded ==
  [][\A in_buf \in Commands :
       (~ExactVerb(in_buf) /\ unijoy_sysfs_store(in_buf))
       => UNCHANGED <<heap, sources, output>>]_vars

\* a table whose every slot up to the capacity holds a source
Full(map, count, cap) == count = cap /\ \A i \in 0..(cap - 1) : map[i].source # NULL

\* C6: an add whose destination is at or above the capacity, given or picked
\* when every slot is occupied, leaves the tables and counts unchanged and
\* writes no index outside 0..capacity-1.
C6_AddAtCapacityRejected ==
  [][\A in_buf \in Commands :
       LET cmd == Parsed[in_buf]
           atCap == \/ /\ cmd.op = 3
                       /\ \/ cmd.arg2 >= MaxButtons
                          \/ cmd.arg2 < 0 /\ Full(output.button_map, output.buttons_no, MaxButtons)
                    \/ /\ cmd.op = 5
                       /\ \/ cmd.arg2 >= AbsCnt
                          \/ cmd.arg2 < 0 /\ Full(output.axis_map, output.axis_no, AbsCnt)
       IN  (atCap /\ unijoy_sysfs_store(in_buf))
           => (output' = output /\ fault' # "oob_write")]_vars

\* C7: after unmerge of a MERGED source the source is ONLINE and no button or
\* axis slot is bound to it.
C7_UnmergeClearsSlots ==
  [][\A in_buf \in Commands :
       LET cmd == Parsed[in_buf]
           source == unijoy_sysfs_find(heap, sources, cmd.id)
       IN  (/\ cmd.op = 2
            /\ source # NULL
            /\ heap[source].state = UNIJOY_SOURCE_MERGED
            /\ unijoy_sysfs_store(in_buf))
           => /\ heap'[source].state = UNIJOY_SOURCE_ONLINE
              /\ BoundButtons(output', source) = {}
              /\ BoundAxes(output', source) = {}]_vars

\* the addresses of the sources in the registry
Listed == {sources[k] : k \in 1..Len(sources)}

\* C8: no slot references a source that was removed from the registry and
\* released.
C8_NoSlotReferencesReleasedSource ==
  /\ \A i \in DOMAIN output.button_map :
       output.button_map[i].source # NULL
       => (heap[output.button_map[i].source].live /\ output.button_map[i].source \in Listed)
  /\ \A i \in DOMAIN output.axis_map :
       output.axis_map[i].source # NULL
       => (heap[output.axis_map[i].source].live /\ output.axis_map[i].source \in Listed)

SizeofJsEvent == 8

\* sizeof(struct JS_DATA_TYPE): int buttons, int x, int y
SizeofJsDataType == 12

\* the key codes a device sends, relative to BTN_MISC: its keys, and a key
\* below BTN_MISC
KeyCodes == DevKeybit \cup {-1}

\* the values of a key event: release, press, autorepeat
KeyValues == {0, 1, 2}

\* the sizes of the buffer a client passes to read
ReadCounts == {4, SizeofJsEvent, SizeofJsDataType, 2 * SizeofJsEvent}

RECURSIVE RouteFrom_AnyMapping(_, _, _, _, _, _)
\* the routing loop with the test of the slot's mapping left out
RouteFrom_AnyMapping(map, count, i, source, number, event) ==
  IF i >= count THEN <<>>
  ELSE (IF map[i].source = source
        THEN <<[event EXCEPT !.number = i]>>
        ELSE <<>>)
       \o RouteFrom_AnyMapping(map, count, i + 1, source, number, event)

RECURSIVE RouteFrom(_, _, _, _, _, _)
\* the for loop of unijoy_inph_event over the slots i .. count-1 of a table:
\* the passing_event handed to unijoy_inph_distribute for every slot bound to
\* the source and its local number, in the order of the calls
RouteFrom(map, count, i, source, number, event) ==
  IF i >= count THEN <<>>
  ELSE (IF map[i].source = source /\ map[i].mapping = number
        THEN <<[event EXCEPT !.number = i]>>
        ELSE <<>>)
       \o RouteFrom(map, count, i + 1, source, number, event)

\* unijoy_inph_distribute on one client of output.client_list
DistributeTo(cl, out, event) ==
  IF cl.startup = out.axis_no + out.buttons_no
  THEN [cl EXCEPT !.buffer[cl.head] = event,
                  !.head = (cl.head + 1) % UNIJOY_BUFFER_SIZE,
                  !.startup = IF cl.tail = (cl.head + 1) % UNIJOY_BUFFER_SIZE
                              THEN 0 ELSE cl.startup]
  ELSE [cl EXCEPT !.buffer[cl.head] = event]

\* static void unijoy_inph_distribute(struct js_event *event)
unijoy_inph_distribute(cls, out, event) ==
  [c \in Clients |-> IF cls[c].open THEN DistributeTo(cls[c], out, event) ELSE cls[c]]

RECURSIVE DistributeAll(_, _, _)
\* the calls of unijoy_inph_distribute one unijoy_inph_event makes, in order
DistributeAll(cls, out, events) ==
  IF events = <<>> THEN cls
  ELSE DistributeAll(unijoy_inph_distribute(cls, out, Head(events)), out, Tail(events))

\* unijoy_inph_event from passing_event = source_event on: the routing loop and
\* its calls of unijoy_inph_distribute
EventPass(map, count, source, event) ==
  /\ emitted' = RouteFrom(map, count, 0, source, event.number, event)
  /\ clients' = DistributeAll(clients, output, emitted')

\* unijoy_inph_event, case EV_KEY; code is relative to BTN_MISC.  The input
\* core has set the bit of dev->key before it calls the handler.
EventKey(d, code, value) ==
  LET source == devs[d].handle
      number == ButtonMapOf(DevKeybit)[code]
  IN  /\ devs' = IF code \in DevKeybit /\ value \in {0, 1}
                 THEN [devs EXCEPT ![d].key[code] = value]
                 ELSE devs
      /\ UNCHANGED <<heap, sent>>
      /\ IF code < 0 \/ value = 2
         THEN /\ NoEmit
              /\ UNCHANGED <<clients>>
         ELSE EventPass(output.button_map, output.buttons_no, source,
                        [type |-> JS_EVENT_BUTTON, init |-> FALSE, number |-> number,
                         value |-> value])

\* unijoy_inph_event, case EV_ABS, without the store of line 808: the cached
\* value is compared but never updated
EventAbs_CacheNotStored(d, code, value) ==
  LET source == devs[d].handle
      number == AxisMapOf(DevAbsbit)[code]
      v == Corrected[value]
  IN  /\ UNCHANGED devs
      /\ IF v = heap[source].axis[number]
         THEN /\ NoEmit
              /\ UNCHANGED <<heap, clients, sent>>
         ELSE /\ UNCHANGED heap
              /\ EventPass(output.axis_map, output.axis_no, source,
                           [type |-> JS_EVENT_AXIS, init |-> FALSE, number |-> number,
                            value |-> v])
              /\ sent' = IF emitted' # <<>>
                         THEN [source |-> source, number |-> number, value |-> v]
                         ELSE sent

\* unijoy_inph_event, case EV_ABS
EventAbs(d, code, value) ==
  LET source == devs[d].handle
      number == AxisMapOf(DevAbsbit)[code]
      v == Corrected[value]
  IN  /\ UNCHANGED devs
      /\ IF v = heap[source].axis[number]
         THEN /\ NoEmit
              /\ UNCHANGED <<heap, clients, sent>>
         ELSE /\ heap' = [heap EXCEPT ![source].axis[number] = v]
              /\ EventPass(output.axis_map, output.axis_no, source,
                           [type |-> JS_EVENT_AXIS, init |-> FALSE, number |-> number,
                            value |-> v])
              /\ sent' = IF emitted' # <<>>
                         THEN [source |-> source, number |-> number, value |-> v]
                         ELSE sent

\* static void unijoy_inph_event(struct input_handle *handle, unsigned int type,
\*                               unsigned int code, int value)
\* The input core passes events only to a handle whose device is open.
unijoy_inph_event(d, type, code, value) ==
  /\ Running
  /\ devs[d].handle # NULL
  /\ heap[devs[d].handle].open
  /\ \/ type = "EV_KEY" /\ code \in KeyCodes /\ value \in KeyValues /\ EventKey(d, code, value)
     \/ type = "EV_ABS" /\ code \in DevAbsbit /\ value \in RawValues /\ EventAbs(d, code, value)
  /\ UNCHANGED <<sources, output, conn, fault>>
  /\ NoRd /\ NoRelink
  /\ UNCHANGED <<calc, dq, wr, ev, lk>>

(***************************************************************************)
(* File operations of the character device.                                *)
(***************************************************************************)
\* static int unijoy_fops_open(struct inode *, struct file *): a zeroed client
\* joins output.client_list, or kzalloc fails and open returns -ENOMEM
unijoy_fops_open(c) ==
  /\ Running
  /\ ~clients[c].open
  /\ \A b \in Clients : b < c => clients[b].open
  /\ \/ clients' = [clients EXCEPT ![c] = [NewClient EXCEPT !.open = TRUE]]
     \/ UNCHANGED clients
  /\ UNCHANGED <<heap, sources, devs, output, conn, fault>>
  /\ NoEmit /\ NoRd /\ Apart /\ NoRelink

\* static int unijoy_fops_release(struct inode *, struct file *)
unijoy_fops_release(c) ==
  /\ Running
  /\ clients[c].open
  /\ clients' = [clients EXCEPT ![c] = NewClient]
  /\ UNCHANGED <<heap, sources, devs, output, conn, fault>>
  /\ NoEmit /\ NoRd /\ Apart /\ NoRelink

\* static inline int unijoy_fops_pending(struct unijoy_fops_client *client)
unijoy_fops_pending(cl, out) ==
  cl.startup < out.axis_no + out.buttons_no \/ cl.head # cl.tail

\* source->axis[mapping] of a slot's source: the cached value; the entries of
\* the array beyond the axes of the device are zero since kzalloc
CachedAxis(h, map) ==
  IF map.mapping \in DOMAIN h[map.source].axis THEN h[map.source].axis[map.mapping] ELSE 0

\* static int unijoy_fops_startup(struct unijoy_fops_client *, struct js_event *):
\* have_event, the client and the event after the call; fault is "null_deref"
\* when the call reads through a NULL map.source
unijoy_fops_startup(cl, out, h) ==
  LET number == IF cl.startup < out.buttons_no THEN cl.startup
                ELSE cl.startup - out.buttons_no
      button == [type |-> JS_EVENT_BUTTON, init |-> TRUE, number |-> number,
                 value |-> 0]
      axis == [type |-> JS_EVENT_AXIS, init |-> TRUE, number |-> number,
               value |-> IF out.axis_map[number].source = NULL THEN 0
                         ELSE CachedAxis(h, out.axis_map[number])]
      next == [cl EXCEPT !.startup = cl.startup + 1]
  IN  IF ~(cl.startup < out.axis_no + out.buttons_no)
      THEN [have |-> FALSE, client |-> cl, event |-> ZeroEvent, fault |-> "none"]
      ELSE IF cl.startup < out.buttons_no
      THEN IF out.button_map[number].source # NULL
           THEN [have |-> TRUE, client |-> next, event |-> button, fault |-> "none"]
           ELSE [have |-> TRUE, client |-> cl, event |-> button, fault |-> "null_deref"]
      ELSE [have |-> TRUE, client |-> next, event |-> axis, fault |-> "none"]

\* static int unijoy_fops_next(struct unijoy_fops_client *, struct js_event *)
unijoy_fops_next(cl) ==
  IF cl.head # cl.tail
  THEN [have |-> TRUE, event |-> cl.buffer[cl.tail],
        client |-> [cl EXCEPT !.tail = (cl.tail + 1) % UNIJOY_BUFFER_SIZE]]
  ELSE [have |-> FALSE, event |-> ZeroEvent, client |-> cl]

RECURSIVE StartupLoop(_, _, _, _, _, _)
RECURSIVE StartupStep(_, _, _, _, _, _)
\* the first while loop of unijoy_fops_read: the client, the byte count, the
\* events copied out and the fault, if any, when the loop is left
StartupLoop(cl, retval, events, count, out, h) ==
  IF retval + SizeofJsEvent <= count
  THEN StartupStep(unijoy_fops_startup(cl, out, h), retval, events, count, out, h)
  ELSE [client |-> cl, retval |-> retval, events |-> events, fault |-> "none"]

\* one turn of the first loop, r being what unijoy_fops_startup returned
StartupStep(r, retval, events, count, out, h) ==
  IF r.fault # "none"
  THEN [client |-> r.client, retval |-> retval, events |-> events, fault |-> r.fault]
  ELSE IF r.have
  THEN StartupLoop(r.client, retval + SizeofJsEvent, Append(events, r.event),
                   count, out, h)
  ELSE [client |-> r.client, retval |-> retval, events |-> events, fault |-> "none"]

RECURSIVE NextLoop(_, _, _, _)
RECURSIVE NextStep(_, _, _, _)
\* the second while loop of unijoy_fops_read
NextLoop(cl, retval, events, count) ==
  IF retval + SizeofJsEvent <= count
  THEN NextStep(unijoy_fops_next(cl), retval, events, count)
  ELSE [client |-> cl, retval |-> retval, events |-> events]

\* one turn of the second loop, r being what unijoy_fops_next returned
NextStep(r, retval, events, count) ==
  IF r.have
  THEN NextLoop(r.client, retval + SizeofJsEvent, Append(events, r.event), count)
  ELSE [client |-> r.client, retval |-> retval, events |-> events]

\* the return of unijoy_fops_read after the second loop left t
ReadReturn(c, count, t) ==
  /\ clients' = [clients EXCEPT ![c] = t.client]
  /\ rd' = [client |-> c, err |-> "none", ret |-> t.retval,
            events |-> t.events]
  /\ UNCHANGED fault

\* unijoy_fops_read from the first loop on, s being what that loop left
ReadLoops(c, count, s) ==
  IF s.fault # "none"
  THEN /\ fault' = s.fault
       /\ clients' = [clients EXCEPT ![c] = s.client]
       /\ rd' = [client |-> c, err |-> "oops", ret |-> 0,
                 events |-> s.events]
  ELSE ReadReturn(c, count, NextLoop(s.client, s.retval, s.events, count))

\* unijoy_fops_read returning the error err
ReadError(c, count, err) ==
  /\ rd' = [client |-> c, err |-> err, ret |-> 0, events |-> <<>>]
  /\ UNCHANGED <<clients, fault>>

\* static ssize_t unijoy_fops_read(struct file *, char __user *buf, size_t count,
\*                                 loff_t *ppos)
\* buf is writable user memory.  A read that has to wait returns when an event
\* is pending, so a blocking read runs when unijoy_fops_pending holds; a signal
\* ends its wait with -ERESTARTSYS.
unijoy_fops_read(c, count, nonblock) ==
  /\ Running
  /\ clients[c].open
  /\ IF count < SizeofJsEvent THEN ReadError(c, count, "EINVAL")
     ELSE IF count = SizeofJsDataType THEN ReadError(c, count, "EINVAL")
     ELSE IF ~unijoy_fops_pending(clients[c], output)
     THEN ReadError(c, count, IF nonblock THEN "EAGAIN" ELSE "ERESTARTSYS")
     ELSE ReadLoops(c, count, StartupLoop(clients[c], 0, <<>>, count, output, heap))
  /\ UNCHANGED <<heap, sources, devs, output, conn>>
  /\ NoEmit /\ NoRelink /\ Apart

(***************************************************************************)
(* Routing: two devices appear, their sources are merged and mapped, and   *)
(* their events are routed; no client has the device open.                 *)
(***************************************************************************)
NextRoute ==
  \/ \E d \in Devs, desc \in DevIds : unijoy_inph_connect(d, desc, TRUE)
  \/ \E in_buf \in RouteCommands : unijoy_sysfs_store(in_buf)
  \/ \E d \in Devs, code \in KeyCodes, value \in KeyValues :
       unijoy_inph_event(d, "EV_KEY", code, value)
  \/ \E d \in Devs, code \in DevAbsbit, value \in RawValues :
       unijoy_inph_event(d, "EV_ABS", code, value)

SpecRoute == Init /\ [][NextRoute]_vars

(***************************************************************************)
(* Reading: one device appears, its source is merged and mapped, its       *)
(* events flow, and clients open the character device and read.            *)
(***************************************************************************)
NextIO ==
  \/ unijoy_inph_connect(1, IODesc, TRUE)
  \/ \E in_buf \in IOCommands : unijoy_sysfs_store(in_buf)
  \/ \E code \in KeyCodes, value \in KeyValues : unijoy_inph_event(1, "EV_KEY", code, value)
  \/ \E code \in DevAbsbit, value \in RawValues : unijoy_inph_event(1, "EV_ABS", code, value)
  \/ \E c \in Clients : unijoy_fops_open(c)
  \/ \E c \in Clients : unijoy_fops_release(c)
  \/ \E c \in Clients, count \in ReadCounts, nonblock \in BOOLEAN :
       unijoy_fops_read(c, count, nonblock)

SpecIO == Init /\ [][NextIO]_vars

(***************************************************************************)
(* Properties of routing.                                                  *)
(***************************************************************************)
\* the slots of a table bound to a source and one of its local numbers
BoundTo(map, source, number) ==
  {i \in DOMAIN map : map[i].source = source /\ map[i].mapping = number}

\* the events of emitted' are one per slot of the set, each with the type and
\* the value given
OnePerSlot(slots, type, value) ==
  /\ Len(emitted') = Cardinality(slots)
  /\ {emitted'[k].number : k \in 1..Len(emitted')} = slots
  /\ \A k \in 1..Len(emitted') :
       emitted'[k].type = type /\ emitted'[k].value = value /\ ~emitted'[k].init

Min(a, b) == IF a < b THEN a ELSE b

\* the number of events a client's ring holds
Buffered(cl) == (cl.head - cl.tail + UNIJOY_BUFFER_SIZE) % UNIJOY_BUFFER_SIZE

\* the type and number of the snapshot event of channel ch: the buttons come
\* first, the axes after them
ChannelType(out, ch) == IF ch < out.buttons_no THEN JS_EVENT_BUTTON ELSE JS_EVENT_AXIS
ChannelNumber(out, ch) == IF ch < out.buttons_no THEN ch ELSE ch - out.buttons_no

\* C9: a read whose buffer holds at least one event returns the snapshot events
\* of the channels the client has not yet got, in channel order, before any
\* live event, then the live events of its ring in the order they were put in,
\* taking each out of the ring; a read whose buffer holds no event returns an
\* error and changes nothing.
C9_ReadContract ==
  [][\A c \in Clients, count \in ReadCounts, nonblock \in BOOLEAN :
       LET cl == clients[c]
           total == output.axis_no + output.buttons_no
           room == count \div SizeofJsEvent
           nsnap == IF cl.startup < total THEN Min(room, total - cl.startup) ELSE 0
           nlive == Min(room - nsnap, Buffered(cl))
           events == rd'.events
       IN  unijoy_fops_read(c, count, nonblock)
           => /\ count < SizeofJsEvent => (rd'.err = "EINVAL" /\ clients' = clients)
              /\ (/\ count >= SizeofJsEvent
                  /\ count # SizeofJsDataType
                  /\ unijoy_fops_pending(cl, output))
                 => /\ rd'.err = "none"
                    /\ Len(events) = nsnap + nlive
                    /\ \A k \in 1..nsnap :
                         /\ events[k].init
                         /\ events[k].type = ChannelType(output, cl.startup + k - 1)
                         /\ events[k].number = ChannelNumber(output, cl.startup + k - 1)
                    /\ \A k \in 1..nlive :
                         events[nsnap + k] = cl.buffer[(cl.tail + k - 1) % UNIJOY_BUFFER_SIZE]
                    /\ clients'[c].tail = (cl.tail + nlive) % UNIJOY_BUFFER_SIZE
                    /\ clients'[c].startup = cl.startup + nsnap
    ]_vars

\* test_bit(button, input->key) of the button behind a slot: the state of the
\* key of the device of the slot's source
KeyState(map) ==
  devs[heap[map.source].dev].key[ButtonRevmapOf(DevKeybit)[map.mapping]]

\* C10: the snapshot event of a button channel carries the key state of the
\* slot's source when the slot has one and 0 when it has none, that of an axis
\* channel the cached value of the slot's source when it has one and 0 when it
\* has none, and no snapshot reads through a missing source.
C10_SnapshotValues ==
  [][\A c \in Clients, count \in ReadCounts, nonblock \in BOOLEAN :
       unijoy_fops_read(c, count, nonblock)
       => /\ fault' # "null_deref"
          /\ \A k \in 1..Len(rd'.events) :
               LET e == rd'.events[k]
                   bslot == output.button_map[e.number]
                   aslot == output.axis_map[e.number]
               IN  e.init
                   => IF e.type = JS_EVENT_BUTTON
                      THEN e.value = (IF bslot.source = NULL THEN 0 ELSE KeyState(bslot))
                      ELSE e.value = (IF aslot.source = NULL THEN 0
                                      ELSE heap[aslot.source].axis[aslot.mapping])
    ]_vars

(***************************************************************************)
(* One axis correction: the record built at creation, then one sample.     *)
(***************************************************************************)
\* the ranges the absinfo fields and the raw samples of the small cases are
\* drawn from
CorrSpan == 4

\* the input_absinfo records of the axes followed: every small range, and the
\* ranges of an 8-bit and of a 16-bit stick
CorrAbsinfo ==
  {[min |-> lo, max |-> hi, flat |-> fl, fuzz |-> 0, val |-> 0] :
     lo \in (-CorrSpan)..CorrSpan, hi \in (-CorrSpan)..CorrSpan, fl \in 0..CorrSpan}
  \cup {[min |-> 0, max |-> 255, flat |-> 15, fuzz |-> 0, val |-> 128],
        [min |-> 0, max |-> 255, flat |-> 60, fuzz |-> 0, val |-> 128],
        [min |-> -32768, max |-> 32767, flat |-> 128, fuzz |-> 16, val |-> 0]}

\* the raw samples: around the small ranges, around the dead zones of the two
\* sticks, and at the ends of the __s16 and the clamp range
CorrValues ==
  ((-2 * CorrSpan)..(2 * CorrSpan))
  \cup {112, 113, 127, 142, 143, 217, 255, -129, -128, 127, 128, 129,
        -40000, -32768, -32767, 32767, 32768, 40000}

InitCorrect ==
  /\ InitModule
  /\ calc \in {[IdleCalc EXCEPT !.at = "input", !.abs = a, !.value = v] :
                 a \in CorrAbsinfo, v \in CorrValues}
  /\ dq = EmptyQueue
  /\ wr = IdleWr
  /\ ev = IdleEv
  /\ sent = NoneSent
  /\ lk = IdleLk

\* unijoy_inph_create, one pass of the corrections loop: the js_corr record
\* and the first cached value of the axis
CorrectionCreate ==
  /\ calc.at = "input"
  /\ calc' = [calc EXCEPT !.at = "created", !.corr = MakeCorr(calc.abs),
                           !.out = MakeAxisInit(calc.abs)]
  /\ UNCHANGED <<heap, sources, devs, output, clients, conn, fault, emitted, rd,
                 relinked, dq, wr, ev, sent, lk>>

\* unijoy_inph_event, EV_ABS: the sample is passed through unijoy_inph_correct
\* with the record of its axis
CorrectionApply ==
  /\ calc.at = "created"
  /\ calc' = [calc EXCEPT !.at = "corrected",
                           !.out = unijoy_inph_correct(calc.value, calc.corr)]
  /\ UNCHANGED <<heap, sources, devs, output, clients, conn, fault, emitted, rd,
                 relinked, dq, wr, ev, sent, lk>>

NextCorrect ==
  \/ CorrectionCreate
  \/ CorrectionApply

SpecCorrect == InitCorrect /\ [][NextCorrect]_vars

\* the value as unijoy_inph_correct clamps it
Clamped(v) == IF v < -32767 THEN -32767 ELSE IF v > 32767 THEN 32767 ELSE v

\* C11: for a JS_CORR_BROKEN record built at creation, with the dead zone
\* [coef[0], coef[1]], every raw sample v with coef[0] <= v <= coef[1], both
\* ends included, is corrected to 0.
C11_DeadzoneToZero ==
  (/\ calc.at = "corrected"
   /\ calc.corr.type = JS_CORR_BROKEN
   /\ calc.corr.coef[1] <= calc.value
   /\ calc.value <= calc.corr.coef[2])
  => calc.out = 0

\* C11 witness: a sample at the upper end of a dead zone wider than one value,
\* on an axis with a slope other than 0, has been corrected to 0.
C11_Witness ==
  /\ calc.at = "corrected"
  /\ calc.corr.type = JS_CORR_BROKEN
  /\ calc.corr.coef[1] < calc.corr.coef[2]
  /\ calc.value = calc.corr.coef[2]
  /\ calc.corr.coef[4] # 0
  /\ calc.out = 0

\* C12 as stated: on an axis that reports min = max (JS_CORR_NONE) every raw
\* sample is corrected to that one value.
C12_NoneYieldsConstant ==
  (calc.at = "corrected" /\ calc.abs.min = calc.abs.max) => calc.out = calc.abs.min

\* C12, amended: on an axis that reports min = max the record is JS_CORR_NONE
\* and every raw sample is returned as it came, clamped to [-32767, 32767].
C12_NonePassesThrough ==
  (calc.at = "corrected" /\ calc.abs.min = calc.abs.max)
  => (calc.corr.type = JS_CORR_NONE /\ calc.out = Clamped(calc.value))

\* C12 witness: a sample other than the one value the axis reports came back
\* unchanged.
C12_Witness ==
  /\ calc.at = "corrected"
  /\ calc.abs.min = calc.abs.max
  /\ calc.value # calc.abs.min
  /\ calc.out = calc.value

\* C13: a device whose id is 0 is never entered into the registry, so no
\* registry entry has the id 0 and no command, whatever its id argument parses
\* to, finds one to merge or to map.
C13_ZeroIdNeverRegistered ==
  \A k \in 1..Len(sources) : heap[sources[k]].id # LongOf(0)

(***************************************************************************)
(* Deferred action queue and worker.                                       *)
(***************************************************************************)
\* whether the ring holds no entry
QueueEmpty(q) == q.head = q.tail /\ ~q.full

\* a push that overwrites the oldest entry when the ring is full
QueuePush_OverwriteOldest(q, a) ==
  LET e == [kind |-> a.kind, channel |-> a.channel, value |-> a.value, n |-> q.pushed + 1]
      head == (q.head + 1) % QueueCap
  IN  IF q.full
      THEN [q EXCEPT !.buf[q.head] = e, !.head = head, !.tail = head,
                     !.pushed = q.pushed + 1,
                     !.retained = Append(q.retained, e)]
      ELSE [q EXCEPT !.buf[q.head] = e, !.head = head, !.full = (head = q.tail),
                     !.pushed = q.pushed + 1,
                     !.retained = Append(q.retained, e)]

\* push, one critical section: a full ring drops the new action, otherwise the
\* action is stored at head
QueuePush(q, a) ==
  LET e == [kind |-> a.kind, channel |-> a.channel, value |-> a.value, n |-> q.pushed + 1]
      head == (q.head + 1) % QueueCap
  IN  IF q.full
      THEN [q EXCEPT !.pushed = q.pushed + 1,
                     !.dropped = Append(q.dropped, q.pushed + 1)]
      ELSE [q EXCEPT !.buf[q.head] = e, !.head = head, !.full = (head = q.tail),
                     !.pushed = q.pushed + 1,
                     !.retained = Append(q.retained, e)]

\* pop, one critical section: the entry at tail
QueuePop(q) ==
  [q EXCEPT !.tail = (q.tail + 1) % QueueCap, !.full = FALSE,
            !.consumed = Append(q.consumed, q.buf[q.tail])]

QueueOnly ==
  UNCHANGED <<heap, sources, devs, output, clients, conn, fault, emitted, rd,
              relinked, calc, wr, ev, sent, lk>>

\* a producer (event router, control command) pushes one action and goes on
Push(a) ==
  /\ dq.pushed < MaxPushes
  /\ dq' = QueuePush(dq, a)
  /\ QueueOnly

\* the worker wakes: the queue is not empty, or the stop signal is raised
WorkerWake ==
  /\ dq.worker = "blocked"
  /\ ~QueueEmpty(dq) \/ dq.stop
  /\ dq' = [dq EXCEPT !.worker = IF dq.stop THEN "exited" ELSE "draining"]
  /\ QueueOnly

\* the worker takes one entry, blocks again on an empty queue, or leaves on
\* the stop signal without draining
WorkerDrain ==
  /\ dq.worker = "draining"
  /\ dq' = IF dq.stop THEN [dq EXCEPT !.worker = "exited"]
            ELSE IF QueueEmpty(dq) THEN [dq EXCEPT !.worker = "blocked"]
            ELSE QueuePop(dq)
  /\ QueueOnly

\* the stop signal of module stop
WorkerStop ==
  /\ ~dq.stop
  /\ dq' = [dq EXCEPT !.stop = TRUE]
  /\ QueueOnly

NextQueue ==
  \/ \E a \in DeferredActions : Push(a)
  \/ WorkerWake
  \/ WorkerDrain
  \/ WorkerStop

SpecQueue == Init /\ [][NextQueue]_vars

\* whether s is the front part of t
IsPrefix(s, t) == Len(s) <= Len(t) /\ s = SubSeq(t, 1, Len(s))

MaxSamples == 3

\* the table and count of the axes
RaceTable(out) == [map |-> out.axis_map, count |-> out.axis_no]

InitRace ==
  /\ heap = [a \in Addr |-> FreeCell]
  /\ sources = <<>>
  /\ devs = [d \in Devs |-> NoDev]
  /\ output = [buttons_no |-> 0, axis_no |-> 0,
               button_map |-> [k \in 0..(MaxButtons - 1) |-> EmptySlot],
               axis_map |-> [k \in 0..(RaceAbsCnt - 1) |-> EmptySlot]]
  /\ clients = [c \in Clients |-> NewClient]
  /\ conn = [d \in Devs |-> IdleConn]
  /\ fault = "none"
  /\ emitted = <<>>
  /\ rd = NoRead
  /\ relinked = FALSE
  /\ calc = IdleCalc
  /\ dq = EmptyQueue
  /\ wr = IdleWr
  /\ ev = IdleEv
  /\ sent = NoneSent
  /\ lk = IdleLk

\* the stores of unijoy_sysfs_add_axis after its tests: the count when the
\* destination d is at or above it, then the two fields of the slot
AddStores(r, count, d, source, src_no) ==
  (IF r.count # count THEN <<[f |-> "count", i |-> 0, v |-> r.count]>> ELSE <<>>)
  \o <<[f |-> "source", i |-> d, v |-> source], [f |-> "mapping", i |-> d, v |-> src_no]>>

\* the stores of unijoy_sysfs_del_axis after its tests: the source of the slot,
\* then the count when the slot was the top one
DelStores(r, count, dst_no) ==
  <<[f |-> "source", i |-> dst_no, v |-> NULL]>>
  \o (IF dst_no + 1 = count THEN <<[f |-> "count", i |-> 0, v |-> r.count]>> ELSE <<>>)

\* what a command that returned early, or ran into a fault, leaves in wr
RaceOnly ==
  UNCHANGED <<heap, sources, devs, clients, conn, calc, dq, sent, lk>>
  /\ NoEmit /\ NoRd /\ NoRelink

\* unijoy_sysfs_store, case 5, up to the first store of unijoy_sysfs_add_axis
RaceAddStart(in_buf) ==
  LET c == Parsed[in_buf]
      source == unijoy_sysfs_find(heap, sources, c.id)
      r == AddSlot(output.axis_map, output.axis_no, RaceAbsCnt, heap, source,
                   IF source = NULL THEN 0 ELSE heap[source].axis_no, c.arg1, c.arg2)
  IN  /\ Running
      /\ wr.at = "idle"
      /\ c.op = 5
      /\ fault' = IF \E d \in r.wrote : d < 0 THEN "oob_write" ELSE fault
      /\ wr' = IF \E d \in r.wrote : d >= 0
                THEN [at |-> "writing",
                      todo |-> AddStores(r, output.axis_no, CHOOSE d \in r.wrote : TRUE,
                                         source, c.arg1),
                      before |-> RaceTable(output),
                      after |-> [map |-> r.map, count |-> r.count]]
                ELSE wr
      /\ UNCHANGED <<output, ev>>
      /\ RaceOnly

\* unijoy_sysfs_store, case 6, up to the first store of unijoy_sysfs_del_axis;
\* a compaction loop that runs below the table is one step, as in StoreDelAxis
RaceDelStart(in_buf) ==
  LET c == Parsed[in_buf]
      r == DelSlot(output.axis_map, output.axis_no, c.arg1)
  IN  /\ Running
      /\ wr.at = "idle"
      /\ c.op = 6
      /\ fault' = IF r.runaway THEN "oob_read" ELSE fault
      /\ output' = IF r.runaway
                    THEN [output EXCEPT !.axis_map = r.map, !.axis_no = RunawayAxisNo]
                    ELSE output
      /\ wr' = IF ~r.runaway /\ r.map # output.axis_map
                THEN [at |-> "writing",
                      todo |-> DelStores(r, output.axis_no, c.arg1),
                      before |-> RaceTable(output),
                      after |-> [map |-> r.map, count |-> r.count]]
                ELSE wr
      /\ UNCHANGED ev
      /\ RaceOnly

\* the sequence s without its k-th entry
Without(s, k) == SubSeq(s, 1, k - 1) \o SubSeq(s, k + 1, Len(s))

\* one store of the command reaches struct output: the k-th of those still to
\* be made, the first in program order or a later one
RaceStore(k) ==
  /\ Running
  /\ wr.at = "writing"
  /\ k \in 1..Len(wr.todo)
  /\ LET w == wr.todo[k]
     IN  output' = IF w.f = "count" THEN [output EXCEPT !.axis_no = w.v]
                   ELSE IF w.f = "source" THEN [output EXCEPT !.axis_map[w.i].source = w.v]
                   ELSE [output EXCEPT !.axis_map[w.i].mapping = w.v]
  /\ wr' = IF Len(wr.todo) = 1 THEN IdleWr ELSE [wr EXCEPT !.todo = Without(wr.todo, k)]
  /\ UNCHANGED <<fault, ev>>
  /\ RaceOnly

\* the loop index after one pass of the routing loop stays where it was
EvNext_Stay(k) == k

\* the loop index after one pass of the routing loop: i++
EvNext(k) == k + 1

EvOnly ==
  UNCHANGED <<sources, devs, output, conn, fault, calc, dq, wr, sent, lk>>
  /\ NoEmit /\ NoRd /\ NoRelink

\* unijoy_inph_event, case EV_ABS, up to the routing loop: the handler runs for
\* one sample at a time; a sample equal to the cached value returns at once
EvStart(d, code, value) ==
  LET source == devs[d].handle
      number == AxisMapOf(DevAbsbit)[code]
      v == Corrected[value]
  IN  /\ Running
      /\ ev.at = "idle"
      /\ ev.n < MaxSamples
      /\ source # NULL
      /\ heap[source].open
      /\ IF v = heap[source].axis[number]
         THEN UNCHANGED <<heap, ev>>
         ELSE /\ heap' = [heap EXCEPT ![source].axis[number] = v]
              /\ ev' = [ev EXCEPT !.at = "count", !.i = 0, !.number = number,
                                  !.value = v, !.n = ev.n + 1]
      /\ UNCHANGED clients
      /\ EvOnly

\* the loop test i < output.axis_no: the count is loaded, or the value loaded
\* in an earlier pass is used again
EvCount(d) ==
  /\ Running
  /\ ev.at = "count"
  /\ \E count \in {output.axis_no} \cup (IF ev.i > 0 THEN {ev.count} ELSE {}) :
       ev' = IF ev.i < count THEN [ev EXCEPT !.at = "source", !.count = count]
             ELSE [ev EXCEPT !.at = "idle", !.count = 0, !.i = 0]
  /\ UNCHANGED <<heap, clients>>
  /\ EvOnly

\* the load of output.axis_map[i].source and its test
EvSource(d) ==
  /\ Running
  /\ ev.at = "source"
  /\ ev' = IF output.axis_map[ev.i].source = devs[d].handle
            THEN [ev EXCEPT !.at = "mapping"]
            ELSE [ev EXCEPT !.at = "count", !.i = EvNext(ev.i)]
  /\ UNCHANGED <<heap, clients>>
  /\ EvOnly

\* the load of output.axis_map[i].mapping, its test, and the call of
\* unijoy_inph_distribute
EvMapping(d) ==
  LET event == [type |-> JS_EVENT_AXIS, init |-> FALSE, number |-> ev.i, value |-> ev.value]
      hit == output.axis_map[ev.i].mapping = ev.number
  IN  /\ Running
      /\ ev.at = "mapping"
      /\ clients' = IF hit THEN unijoy_inph_distribute(clients, output, event) ELSE clients
      /\ ev' = [ev EXCEPT !.at = "count", !.i = EvNext(ev.i),
                          !.log = IF hit
                                  THEN Append(ev.log, [number |-> ev.i, value |-> ev.value,
                                                       n |-> ev.n])
                                  ELSE ev.log]
      /\ UNCHANGED heap
      /\ EvOnly

NextRace ==
  \/ unijoy_inph_connect(1, IODesc, TRUE)
  \/ wr.at = "idle" /\ unijoy_sysfs_store(RaceMerge)
  \/ \E in_buf \in RaceCommands : RaceAddStart(in_buf)
  \/ \E in_buf \in RaceCommands : RaceDelStart(in_buf)
  \/ \E k \in 1..Len(wr.todo) : RaceStore(k)
  \/ \E code \in DevAbsbit, value \in RawValues : EvStart(1, code, value)
  \/ EvCount(1)
  \/ EvSource(1)
  \/ EvMapping(1)

SpecRace == InitRace /\ [][NextRace]_vars

\* the destinations the log names
LogDests == {ev.log[k].number : k \in 1..Len(ev.log)}

\* the samples a destination received, in the order of the log
LogOf(dest) == SelectSeq(ev.log, LAMBDA e : e.number = dest)

\* C15: each destination receives its events in the order the samples of the
\* axis arrived, each sample at most once, whatever add_axis or del_axis
\* command runs meanwhile.
C15_FanOutInOrder ==
  \A p \in 1..Len(ev.log), q \in 1..Len(ev.log) :
    (p < q /\ ev.log[p].number = ev.log[q].number) => ev.log[p].n < ev.log[q].n

\* C15 witness: two destinations have each received two samples of the one
\* axis, and a command is at its stores while the routing loop runs.
C15_Witness ==
  /\ \E a \in LogDests, b \in LogDests :
       a # b /\ Len(LogOf(a)) >= 2 /\ Len(LogOf(b)) >= 2
  /\ wr.at = "writing"
  /\ ev.at # "idle"

\* a load of the routing loop
EvLoad == EvCount(1) \/ EvSource(1) \/ EvMapping(1)

\* C16: a load of the routing loop made while an add or del command runs
\* finds the table and the count either as they were before the command or as
\* they are after it.
C16_AllOrNothing ==
  [][(EvLoad /\ wr.at = "writing") => RaceTable(output) \in {wr.before, wr.after}]_vars

\* whether the text is an add_button or add_axis command that names a MERGED
\* source and a source-local index outside 0 .. count - 1 of that source
AddOutsideSource(in_buf) ==
  LET c == Parsed[in_buf]
      source == unijoy_sysfs_find(heap, sources, c.id)
  IN  /\ c.op \in {3, 5}
      /\ source # NULL
      /\ heap[source].state = UNIJOY_SOURCE_MERGED
      /\ c.arg1 \notin 0..((IF c.op = 3 THEN heap[source].buttons_no
                             ELSE heap[source].axis_no) - 1)

\* C17: an add_button or add_axis command whose source-local index is outside
\* 0 .. count - 1 of the named MERGED source, the count itself included, leaves
\* every slot and both counts as they were.
C17_AddOutsideSourceRejected ==
  [][\A in_buf \in RouteCommands :
       (unijoy_sysfs_store(in_buf) /\ AddOutsideSource(in_buf)) => output' = output]_vars

\* whether the text is an add_button or add_axis command without destination
\* that names a MERGED source and one of its source-local indices
AutoAdd(in_buf) ==
  LET c == Parsed[in_buf]
      source == unijoy_sysfs_find(heap, sources, c.id)
  IN  /\ c.op \in {3, 5}
      /\ c.arg2 < 0
      /\ source # NULL
      /\ heap[source].state = UNIJOY_SOURCE_MERGED
      /\ c.arg1 \in 0..((IF c.op = 3 THEN heap[source].buttons_no
                          ELSE heap[source].axis_no) - 1)

\* the slot the command is to write: the lowest empty slot below the count,
\* else the slot at the count
AutoTarget(map, count) ==
  LET holes == {k \in 0..(count - 1) : map[k].source = NULL}
  IN  IF holes # {} THEN CHOOSE k \in holes : \A j \in holes : k <= j ELSE count

\* the table with the slot at t bound, and nothing else changed
BoundAt(map, t, source, src_no) ==
  [k \in DOMAIN map |-> IF k = t THEN [source |-> source, mapping |-> src_no] ELSE map[k]]

\* C18: an add_button or add_axis command without destination writes the
\* lowest-indexed empty slot below the count if there is one, else the slot at
\* the count, which then grows by one; no other slot of either table changes.
C18_AutoDestination ==
  [][\A in_buf \in Commands :
       (unijoy_sysfs_store(in_buf) /\ AutoAdd(in_buf)) =>
         LET c == Parsed[in_buf]
             source == unijoy_sysfs_find(heap, sources, c.id)
             tb == AutoTarget(output.button_map, output.buttons_no)
             ta == AutoTarget(output.axis_map, output.axis_no)
         IN  IF c.op = 3
             THEN /\ tb \in DOMAIN output.button_map
                  /\ output'.button_map = BoundAt(output.button_map, tb, source, c.arg1)
                  /\ output'.buttons_no = IF tb = output.buttons_no THEN tb + 1
                                           ELSE output.buttons_no
                  /\ output'.axis_map = output.axis_map
                  /\ output'.axis_no = output.axis_no
             ELSE /\ ta \in DOMAIN output.axis_map
                  /\ output'.axis_map = BoundAt(output.axis_map, ta, source, c.arg1)
                  /\ output'.axis_no = IF ta = output.axis_no THEN ta + 1
                                        ELSE output.axis_no
                  /\ output'.button_map = output.button_map
                  /\ output'.buttons_no = output.buttons_no]_vars

\* whether the text is a merge command that names a source that is not ONLINE
MergeNotOnline(in_buf) ==
  LET c == Parsed[in_buf]
      source == unijoy_sysfs_find(heap, sources, c.id)
  IN  /\ c.op = 1
      /\ source # NULL
      /\ heap[source].state # UNIJOY_SOURCE_ONLINE

\* C19: a merge command on a source that is not ONLINE changes nothing: a
\* MERGED source stays as it is, a WASMERGED source stays WASMERGED and its
\* device is not opened; a WASMERGED source becomes MERGED only in a connect
\* of a device with its id.
C19_MergeOnlyFromOnline ==
  [][/\ \A in_buf \in Commands :
          (unijoy_sysfs_store(in_buf) /\ MergeNotOnline(in_buf)) => heap' = heap
     /\ \A a \in Addr :
          (/\ heap[a].live /\ heap[a].state = UNIJOY_SOURCE_WASMERGED
           /\ heap'[a].live /\ heap'[a].state = UNIJOY_SOURCE_MERGED) => relinked'
    ]_vars

\* C20: the disconnect of a MERGED source leaves it WASMERGED and listed, and
\* every slot that was bound to it has its source cleared and its source-local
\* index kept.
C20_DisconnectClearsSlots ==
  [][\A d \in Devs :
       (/\ devs[d].handle # NULL
        /\ heap[devs[d].handle].state = UNIJOY_SOURCE_MERGED
        /\ unijoy_inph_disconnect(d))
       => LET a == devs[d].handle
          IN  /\ heap'[a].live
              /\ heap'[a].state = UNIJOY_SOURCE_WASMERGED
              /\ \E k \in 1..Len(sources') : sources'[k] = a
              /\ \A k \in BoundButtons(output, a) :
                   output'.button_map[k] =
                     [source |-> NULL, mapping |-> output.button_map[k].mapping]
              /\ \A k \in BoundAxes(output, a) :
                   output'.axis_map[k] =
                     [source |-> NULL, mapping |-> output.axis_map[k].mapping]]_vars

-----------------------------------------------------------------------------
\* Claim C21, the cached axis value

\* C21 as stated, its last part: once an axis event has been emitted for a
\* local axis of a source, the cached value of that axis equals the value of
\* the last axis event emitted for it
C21_CacheIsLastEmitted ==
  (Running /\ sent.source # NULL /\ heap[sent.source].live)
  => heap[sent.source].axis[sent.number] = sent.value

\* C21, amended: a sample whose corrected value equals the cached value emits
\* nothing and changes no state; any other sample sets the cache to the
\* corrected value and emits one event with that value per matching slot, so
\* every axis event emitted carries the value the cache holds from then on
C21_CacheDedupe ==
  [][ \A d \in Devs, code \in DevAbsbit, value \in RawValues :
        LET source == devs[d].handle
            number == AxisMapOf(DevAbsbit)[code]
            v == Corrected[value]
        IN  unijoy_inph_event(d, "EV_ABS", code, value)
            => IF v = heap[source].axis[number]
               THEN /\ emitted' = <<>>
                    /\ UNCHANGED <<heap, sources, devs, output, clients, conn, fault, sent>>
               ELSE /\ heap'[source].axis[number] = v
                    /\ OnePerSlot({i \in BoundTo(output.axis_map, source, number) :
                                     i < output.axis_no}, JS_EVENT_AXIS, v)
                    /\ emitted' # <<>>
                       => /\ sent' = [source |-> source, number |-> number, value |-> v]
                          /\ heap'[sent'.source].axis[sent'.number] = sent'.value
    ]_vars

\* C21, witness: a sample has changed the cache away from the value emitted
\* before, and its event has gone out with the value the cache now holds
C21_Witness ==
  /\ Running /\ sent.source # NULL /\ emitted # <<>>
  /\ emitted[1].type = JS_EVENT_AXIS
  /\ emitted[1].value = heap[sent.source].axis[sent.number]
  /\ emitted[1].value = sent.value
  /\ sent.value # 0

-----------------------------------------------------------------------------
\* Claim C22, the range of the startup counter

\* C22: in every reachable state the startup counter of each attached client
\* lies in 0 .. output.axis_no + output.buttons_no, also after a del_button or
\* del_axis command has lowered the counts while the client is attached
C22_StartupInRange ==
  Running
  => \A c \in Clients :
       clients[c].open
       => clients[c].startup \in 0..(output.axis_no + output.buttons_no)

-----------------------------------------------------------------------------
\* Claim C23, a broadcast reaches every attached client

\* C23: a broadcast appends the event to the ring of every client attached at
\* that moment, whatever its startup counter: after a handler that made one
\* call of unijoy_inph_distribute, the event lies at the old head of every
\* attached client and the head has moved past it
C23_BroadcastAppends ==
  [][ (Running /\ Len(emitted') = 1)
      => \A c \in Clients :
           clients[c].open
           => /\ clients'[c].buffer[clients[c].head] = emitted'[1]
              /\ clients'[c].head = (clients[c].head + 1) % UNIJOY_BUFFER_SIZE
    ]_vars

-----------------------------------------------------------------------------
\* Claim C24, a full ring and the snapshot that follows it

\* the place of an event's channel in the snapshot order: the buttons come
\* first, the axes after them
ChannelOf(out, event) ==
  IF event.type = JS_EVENT_BUTTON THEN event.number ELSE out.buttons_no + event.number

\* a broadcast of one event whose head catches up with the tail of client c
RingFilled(c) ==
  /\ clients[c].open
  /\ clients[c].startup = output.axis_no + output.buttons_no
  /\ (clients[c].head + 1) % UNIJOY_BUFFER_SIZE = clients[c].tail

\* the event of a broadcast is in the ring of client c after it
Appended(c) ==
  /\ clients'[c].head = (clients[c].head + 1) % UNIJOY_BUFFER_SIZE
  /\ clients'[c].head # clients'[c].tail
  /\ clients'[c].buffer[clients[c].head] = emitted'[1]

\* C24: a broadcast that makes the ring of a client full resets its startup
\* counter to 0; a read hands out a live event only after the snapshot events
\* of all channels; and the client gets no live sequence with a silent gap:
\* an event that a broadcast does not leave in the ring of an attached client
\* belongs to a channel whose snapshot event the client has yet to read
C24_NoSilentGap ==
  [][ /\ (Running /\ Len(emitted') = 1)
         => \A c \in Clients : RingFilled(c) => clients'[c].startup = 0
      /\ (rd'.client \in Clients /\ rd'.err = "none")
         => \A k \in 1..Len(rd'.events) :
              ~rd'.events[k].init
              => /\ clients'[rd'.client].startup >= output.axis_no + output.buttons_no
                 /\ \A j \in k..Len(rd'.events) : ~rd'.events[j].init
      /\ (Running /\ Len(emitted') = 1)
         => \A c \in Clients :
              clients[c].open
              => \/ Appended(c)
                 \/ ChannelOf(output, emitted'[1]) >= clients'[c].startup
    ]_vars

\* the first two parts of C24 alone
C24_ResetThenSnapshot ==
  [][ /\ (Running /\ Len(emitted') = 1)
         => \A c \in Clients : RingFilled(c) => clients'[c].startup = 0
      /\ (rd'.client \in Clients /\ rd'.err = "none")
         => \A k \in 1..Len(rd'.events) :
              ~rd'.events[k].init
              => /\ clients'[rd'.client].startup >= output.axis_no + output.buttons_no
                 /\ \A j \in k..Len(rd'.events) : ~rd'.events[j].init
    ]_vars

-----------------------------------------------------------------------------
\* Claim C25, no attached client goes deaf

\* a client for which unijoy_fops_pending is false and no broadcast changes
\* that: its ring is empty and its startup counter is above the totals
Deaf(cl, out) ==
  cl.open /\ cl.head = cl.tail /\ cl.startup > out.axis_no + out.buttons_no

\* C25: no attached client becomes deaf: whatever add and del commands came
\* before, an event routed to a mapped channel leaves every attached client
\* with something to read (the event, or a snapshot that replaces it), so the
\* pending condition of a client does not stay false while events are routed
C25_NeverDeaf ==
  [][ (Running /\ emitted' # <<>>)
      => \A c \in Clients :
           clients[c].open => unijoy_fops_pending(clients'[c], output')
    ]_vars

\* deafness lasts: neither an event nor a read of the client ends it
C25_DeafStays ==
  [][ \A c \in Clients :
        (Running /\ Deaf(clients[c], output) /\ output' = output /\ clients'[c].open)
        => /\ Deaf(clients'[c], output')
           /\ rd'.client = c => rd'.events = <<>>
    ]_vars

-----------------------------------------------------------------------------
\* Claim C26, the range of the fixed-point multiply

\* the absolute value
Abs(n) == IF n < 0 THEN 0 - n ELSE n

\* whether the product of a and b lies in -2^31 .. 2^31 - 1, found without
\* forming it
Fits32(a, b) ==
  LET top == (2 ^ 30 - 1) + 2 ^ 30
      q == top \div Abs(b)
      r == top % Abs(b)
  IN  \/ a = 0
      \/ b = 0
      \/ Abs(a) <= q
      \/ (a < 0) # (b < 0) /\ r = Abs(b) - 1 /\ Abs(a) = q + 1

\* the multiply unijoy_inph_correct executes for a sample stays in 32 bits
MultiplyFits(value, corr) ==
  LET c == corr.coef
  IN  IF value > c[1]
      THEN value < c[2] \/ Fits32(c[4], value - c[2])
      ELSE Fits32(c[3], value - c[1])

\* C26: for a Broken-line axis built from a descriptor with min < max and
\* flat >= 0, a raw sample in [min, max] is corrected without the 32-bit
\* multiply wrapping; a sample above the dead zone yields a value in
\* 0 .. 32767 and a sample below it a value in -32767 .. 0
C26_SignFollowsDeflection ==
  (/\ calc.at = "corrected"
   /\ calc.abs.min < calc.abs.max /\ calc.abs.flat >= 0
   /\ calc.value \in calc.abs.min..calc.abs.max
   /\ calc.corr.type = JS_CORR_BROKEN)
  => /\ MultiplyFits(calc.value, calc.corr)
     /\ calc.value > calc.corr.coef[2] => calc.out \in 0..32767
     /\ calc.value < calc.corr.coef[1] => calc.out \in (-32767)..0

\* the wrap alone: the multiply of a sample in [min, max] stays in 32 bits
C26_MultiplyFits ==
  (/\ calc.at = "corrected"
   /\ calc.abs.min < calc.abs.max /\ calc.abs.flat >= 0
   /\ calc.value \in calc.abs.min..calc.abs.max
   /\ calc.corr.type = JS_CORR_BROKEN)
  => MultiplyFits(calc.value, calc.corr)

\* the same for the descriptors whose dead zone leaves at least three
\* quarters of each half of the range: 8 * flat <= max - min
C26_SmallFlat ==
  (/\ calc.at = "corrected"
   /\ calc.abs.min < calc.abs.max /\ calc.abs.flat >= 0
   /\ 8 * calc.abs.flat <= calc.abs.max - calc.abs.min
   /\ calc.value \in calc.abs.min..calc.abs.max
   /\ calc.corr.type = JS_CORR_BROKEN)
  => /\ MultiplyFits(calc.value, calc.corr)
     /\ calc.value > calc.corr.coef[2] => calc.out \in 0..32767
     /\ calc.value < calc.corr.coef[1] => calc.out \in (-32767)..0

-----------------------------------------------------------------------------
(***************************************************************************)
(* A control command step by step: unijoy_sysfs_find takes and drops       *)
(* sources_lock, and the command uses the pointer it returned afterwards.  *)
(* Disconnect callbacks and other commands run in between; neither         *)
(* unijoy_sysfs_remove nor the rest of a command takes the lock.           *)
(***************************************************************************)
\* the texts written: merge, unmerge and add_axis commands
LookupCommands ==
  {Cmd(op, <<>>, <<id>>) : op \in {1, 2}, id \in CmdIds}
  \cup {Cmd(5, <<>>, <<id, 0>>) : id \in CmdIds}

\* unijoy_sysfs_store, cases 1, 2 and 5, up to the return of unijoy_sysfs_find
LookupFind(in_buf) ==
  LET c == Parsed[in_buf]
  IN  /\ Running
      /\ lk.at = "idle"
      /\ c.op \in {1, 2, 5}
      /\ lk' = [at |-> "found", op |-> c.op,
                source |-> unijoy_sysfs_find(heap, sources, c.id),
                arg1 |-> c.arg1, arg2 |-> c.arg2]
      /\ UNCHANGED <<heap, sources, devs, output, clients, conn, fault,
                     calc, dq, wr, ev, sent>>
      /\ NoEmit /\ NoRd /\ NoRelink

\* unijoy_sysfs_store, cases 1, 2 and 5, from the call of unijoy_sysfs_merge,
\* unijoy_sysfs_unmerge or unijoy_sysfs_add_axis on: each reads source->state
\* first, in memory that may have been released since the lookup
LookupApply ==
  LET source == lk.source
      u == unijoy_sysfs_unmerge(heap, sources, source)
      r == unijoy_sysfs_add_axis(output, heap, source, lk.arg1, lk.arg2)
  IN  /\ Running
      /\ lk.at = "found"
      /\ lk' = IdleLk
      /\ IF source # NULL /\ ~heap[source].live
         THEN /\ fault' = "use_after_free"
              /\ UNCHANGED <<heap, sources, output>>
         ELSE /\ heap' = IF lk.op = 1
                         THEN unijoy_sysfs_merge(heap, source, Registered(source))
                         ELSE IF lk.op = 2 THEN u.heap ELSE heap
              /\ sources' = IF lk.op = 2 THEN u.sources ELSE sources
              /\ output' = IF lk.op = 5
                           THEN [output EXCEPT !.axis_map = r.map, !.axis_no = r.count]
                           ELSE output
              /\ fault' = IF lk.op = 5 /\ \E d \in r.wrote : d < 0
                          THEN "oob_write" ELSE fault
      /\ UNCHANGED <<devs, clients, conn, calc, dq, wr, ev, sent>>
      /\ NoEmit /\ NoRd /\ NoRelink

NextLookup ==
  \/ \E d \in Devs, desc \in DevIds : unijoy_inph_connect(d, desc, TRUE)
  \/ \E d \in Devs : unijoy_inph_disconnect(d)
  \/ \E in_buf \in LookupCommands : LookupFind(in_buf)
  \/ LookupApply
  \/ \E in_buf \in LookupCommands : unijoy_sysfs_store(in_buf)

SpecLookup == Init /\ [][NextLookup]_vars

\* C27: removal from the registry excludes the lookups and the commands that
\* use a looked-up source: however a command (find, then merge, unmerge or
\* add) is interleaved with a disconnect callback or another unmerge, the
\* source the command goes on to use has not been unlinked and released
C27_NoUseAfterRelease ==
  [][ LookupApply
      => (lk.source # NULL => heap[lk.source].live /\ lk.source \in Listed)
    ]_vars

=============================================================================
